---- MODULE Spec2Model ----
(***************************************************************************)
(* LazAI assistant extension: the session store of the chat provider       *)
(* (src/src/chatProvider.ts), the inline completion gatekeeper              *)
(* (src/src/inlineCompletionProvider.ts, lines 1-214) and the two          *)
(* LazAIService sources the repository holds (src/unnamed/part_002, lines  *)
(* 37-324, called "A" below, and src/src/inlineCompletionProvider.ts,      *)
(* lines 251-470, called "B").                                             *)
(***************************************************************************)
EXTENDS Integers, Sequences, FiniteSets, TLC

VARIABLES
    \* ---- LazAIChatProvider (chatProvider.ts)
    chatSessions,       \* private chatSessions: ChatSession[]
    currentSessionId,   \* private currentSessionId: string | null
    clock,              \* the value Date.now() returns to the chat provider
    hist,               \* history of the store run (counters, last switch)
    panel,              \* private panel: WebviewPanel | undefined (FALSE)
    display,            \* the messages the webview shows, in order
    refreshDue,         \* setTimeout(refreshChatDisplay) callbacks not yet run
    pendingChats,       \* handleChatMessage calls awaiting lazaiService.chat
    panelLog,           \* what the last step of the chat provider saw and did
    \* ---- LazAIInlineCompletionProvider (inlineCompletionProvider.ts)
    lastRequestTime,    \* private lastRequestTime: number
    pendingRequest,     \* private pendingRequest: Promise | null
    gnow,               \* the value Date.now() returns to the provider
    inflight,           \* getCompletion promises issued and not yet settled
    issued,             \* submission times of the getCompletion calls issued
    lastCall,           \* what the last provideInlineCompletionItems call saw and did
    \* ---- LazAIService (part_002 / inlineCompletionProvider.ts 251-470)
    impl,               \* which of the two LazAIService sources is running
    config,             \* the 'lazai' configuration section as the service reads it
    alithAgent,         \* private alithAgent: any = null (FALSE), or an Agent (TRUE)
    inits,              \* runs of initializeAlith so far
    envKey,             \* process.env.PRIVATE_KEY, <<>> while unset
    notices,            \* the messages the last run of initializeAlith showed
    configured,         \* <<b>> when isConfigured() returned b under the present
                        \* settings, <<>> when it was not called since they changed
    call,               \* the getCompletion / chat call in progress, and its trace
    \* ---- ChatDetector (part_000) and the documents it watches
    chatEnabled,        \* the lazai.chatEnabled setting
    activeEditor,       \* the document of vscode.window.activeTextEditor, or NoDoc
    docs,               \* per document: lineCount and the text of the line being typed
    timers,             \* the handleChatTrigger calls setTimeout holds, in order
    editing,            \* the handleChatTrigger calls awaiting their editor.edit
    edits,              \* the deletions handleChatTrigger has made
    queries,            \* the handleInlineChatQuery calls handleChatTrigger has made
    inlineCalls,        \* the inline queries awaiting lazaiService.chat
    errorsShown,        \* the error messages shown to the user, in order
    inserts,            \* the answers the inline queries have inserted
    detLog              \* what the last step of the detector saw and did

storeVars == <<chatSessions, currentSessionId, clock, hist,
               panel, display, refreshDue, pendingChats, panelLog>>
panelVars == <<panel, display, refreshDue, pendingChats, panelLog>>
gateVars  == <<lastRequestTime, pendingRequest, gnow, inflight, issued, lastCall>>
svcVars   == <<impl, config, alithAgent, inits, envKey, notices, configured, call>>
inlineVars == <<inlineCalls, errorsShown, inserts>>
detVars   == <<chatEnabled, activeEditor, docs, timers, editing, edits, queries,
               inlineCalls, errorsShown, inserts, detLog>>
vars      == <<chatSessions, currentSessionId, clock, hist,
               panel, display, refreshDue, pendingChats, panelLog,
               lastRequestTime, pendingRequest, gnow, inflight, issued, lastCall,
               impl, config, alithAgent, inits, envKey, notices, configured, call,
               chatEnabled, activeEditor, docs, timers, editing, edits, queries,
               inlineCalls, errorsShown, inserts, detLog>>

(***************************************************************************)
(* Bounds of the exploration.                                              *)
(***************************************************************************)
MaxCreates     == 11   \* session creations in a run of the store
MaxAppends     == 1    \* appends in a run of the store
MaxCollisions  == 1    \* first sessions whose successor may share their millisecond
MaxLongAppends == 60   \* appends in a run of the long-session specification
MaxLongCreates == 1    \* session creations in the long-session specification
MaxAssistant   == 1    \* first appends of the long session that may be the assistant's
MaxText        == 2    \* characters of text before the cursor
MaxElapsed     == 2501 \* milliseconds the completion provider's clock advances
StartTime      == 5000 \* Date.now() when the completion provider is constructed
MaxInits       == 2    \* runs of initializeAlith: the constructor's, then reinitialize()
MaxEnters      == 2    \* Enter events in a run of the chat detector
MaxSends       == 1    \* panel messages in a run of the chat panel
MaxTalkSends   == 6    \* panel messages in a run of the long-conversation specification
MaxPanelCreates == 2   \* session creations in a run of the chat panel
MaxPending     == 2    \* handleChatMessage calls awaiting the backend at a time
MaxOpens       == 1    \* times the panel is opened in a run of the chat panel
MaxInlineCreates == 1  \* session creations in a run of the inline queries
MaxPicks       == 1    \* 'clear history' commands in a run of the store
MaxPieces      == 3    \* pieces of a text returned by getCompletion
MaxMixEnters   == 1    \* Enter events in a run of the three paths side by side

(***************************************************************************)
(* Program constants.                                                      *)
(***************************************************************************)
MaxSessionMessages == 50
MaxSessions        == 10
NameLength         == 30
HistoryWindow      == 6
minRequestInterval == 2000

NullId == -1           \* currentSessionId === null
Roles  == {"user", "assistant"}

Min(a, b) == IF a < b THEN a ELSE b

\* a string of n characters c; strings are sequences of characters
Rep(c, n) == [i \in 1..n |-> c]

(***************************************************************************)
(* Array.prototype.slice(-n): the last n elements, all of them when the    *)
(* array is shorter.                                                       *)
(***************************************************************************)
SliceFirst(s, n) == IF Len(s) > n THEN SubSeq(s, 1, n) ELSE s

SliceLast(s, n) == IF Len(s) > n THEN SubSeq(s, Len(s) - n + 1, Len(s)) ELSE s

(***************************************************************************)
(* Array.prototype.find(s => s.id === id) as the index of the first match, *)
(* 0 when there is none.                                                   *)
(***************************************************************************)
FindSession(sessions, id) ==
    IF \E i \in 1..Len(sessions) : sessions[i].id = id
    THEN CHOOSE i \in 1..Len(sessions) :
            /\ sessions[i].id = id
            /\ \A j \in 1..(i - 1) : sessions[j].id # id
    ELSE 0

(***************************************************************************)
(* The store as a value: st.sessions, st.cur, and st.created, the number   *)
(* of sessions created so far.  A session carries its id ("session_" +     *)
(* Date.now(), held as the number), createdAt, messages, and two history   *)
(* Date.now(), held as the number), name, createdAt, messages, and two     *)
(* history fields: seq, its creation ordinal, and total, the number of     *)
(* messages ever appended to it.  A message is its role and n, the ordinal *)
(* of the append that added it to its session, standing for its content;   *)
(* the text of a content is looked at where a session is named from it.    *)
(***************************************************************************)
NewSession(t, ord, name) ==
    [id |-> t, name |-> name, createdAt |-> t, messages |-> <<>>, seq |-> ord,
     total |-> 0]

\* the decimal digits of n, as `${n}` gives them
DigitChar(d) == <<"0", "1", "2", "3", "4", "5", "6", "7", "8", "9">>[d + 1]

RECURSIVE Decimal(_)
Decimal(n) == IF n < 10 THEN <<DigitChar(n)>>
              ELSE Append(Decimal(n \div 10), DigitChar(n % 10))

\* a firstMessage that is undefined, or empty
NoMessage == <<>>

SessionNameCut(firstMessage, count) ==
    IF firstMessage # NoMessage
    THEN SubSeq(firstMessage, 1, Min(NameLength, Len(firstMessage)))
    ELSE <<"C", "h", "a", "t", " ">> \o Decimal(count + 1)

\* firstMessage ? firstMessage.substring(0, 30) + (firstMessage.length > 30
\* ? '...' : '') : `Chat ${this.chatSessions.length + 1}`
SessionName(firstMessage, count) ==
    IF firstMessage # NoMessage
    THEN SubSeq(firstMessage, 1, Min(NameLength, Len(firstMessage)))
            \o (IF Len(firstMessage) > NameLength THEN <<".", ".", ".">> ELSE <<>>)
    ELSE <<"C", "h", "a", "t", " ">> \o Decimal(count + 1)

EvictMostRecentlyCreated(st, t, firstMessage) ==
    [sessions |-> SliceFirst(Append(st.sessions,
                                    NewSession(t, st.created + 1,
                                               SessionName(firstMessage, Len(st.sessions)))),
                             MaxSessions),
     cur      |-> t,
     created  |-> st.created + 1]

\* createNewSession(firstMessage?)
createNewSession(st, t, firstMessage) ==
    [sessions |-> SliceLast(Append(st.sessions,
                                   NewSession(t, st.created + 1,
                                              SessionName(firstMessage, Len(st.sessions)))),
                            MaxSessions),
     cur      |-> t,
     created  |-> st.created + 1]

PushKeepOldest(msgs, m) == SliceFirst(Append(msgs, m), MaxSessionMessages)

\* session.messages.push(..); if (length > 50) messages = messages.slice(-50)
PushMessage(msgs, m) == SliceLast(Append(msgs, m), MaxSessionMessages)

\* addMessageToSession(role, content)
addMessageToSession(st, role, content, t) ==
    LET st1 == IF st.cur = NullId
               THEN createNewSession(st, t, IF role = "user" THEN content ELSE NoMessage)
               ELSE st
        i   == FindSession(st1.sessions, st1.cur)
    IN  IF i = 0 THEN st1
        ELSE [st1 EXCEPT
                !.sessions[i].messages =
                    PushMessage(@, [role |-> role, n |-> st1.sessions[i].total + 1]),
                !.sessions[i].total = @ + 1]

SwitchAnyway(st, id) == [st EXCEPT !.cur = id]

\* switchToSession(sessionId): the store after it
switchToSession(st, id) ==
    IF FindSession(st.sessions, id) # 0 THEN [st EXCEPT !.cur = id] ELSE st

\* the line clearChat() of the webview puts first
Greeting == [role |-> "assistant", n |-> 0]

\* refreshChatDisplay(): what the webview shows after it
refreshChatDisplay(st, open, shown) ==
    IF open
    THEN LET i == FindSession(st.sessions, st.cur)
         IN  <<Greeting>> \o (IF i # 0 THEN st.sessions[i].messages ELSE <<>>)
    ELSE shown

\* the sessions' messages, session by session
AllMessages(sessions) == [i \in 1..Len(sessions) |-> sessions[i].messages]

Store == [sessions |-> chatSessions, cur |-> currentSessionId, created |-> hist.created]

SetStore(st) ==
    /\ chatSessions' = st.sessions
    /\ currentSessionId' = st.cur

(***************************************************************************)
(* Actions of the store.  hist counts the operations: created, appends,    *)
(* assistant (appends with that role), collisions (creations in a          *)
(* millisecond that had already seen a creation); usedAt is the clock value *)
(* of the last creation, and switchedTo the creation ordinal of the session *)
(* the last successful switch went to when that was the oldest session     *)
(* held, 0 otherwise; first and held are the firstMessage the last         *)
(* creation was given and the number of sessions held when it began;       *)
(* picks counts the 'clear history' commands.                              *)
(***************************************************************************)
\* the contents of the messages: 30 and 31 characters (the webview sends no
\* empty message)
Contents == {Rep("m", NameLength), Rep("m", NameLength + 1)}

\* the log: the step's operation; for a panel message what isConfigured()
\* returned and the request sent to the backend (<<>> when none was); for a
\* switch whether the id was held, whether store and display stayed as they
\* were, whether the current id became the id, and whether every session's
\* messages stayed; for a settled call the session its user message went to
\* (origin) and whether an exception left handleChatMessage; added lists the
\* messages the step appended, each with its session, role, place and text;
\* sends counts the panel messages, opens the panels opened
NoPanelLog == [op |-> "none", request |-> <<>>, known |-> FALSE, same |-> FALSE,
               became |-> FALSE, kept |-> FALSE, escaped |-> FALSE,
               usable |-> FALSE, origin |-> 0, added |-> <<>>,
               sends |-> 0, opens |-> 0]

Logged(op) == [NoPanelLog EXCEPT !.op = op, !.sends = panelLog.sends,
                                 !.opens = panelLog.opens]

StoreInit ==
    /\ chatSessions = <<>>
    /\ currentSessionId = NullId
    /\ clock = 0
    /\ hist = [created |-> 0, appends |-> 0, assistant |-> 0, switchedTo |-> 0,
               collisions |-> 0, usedAt |-> -1, first |-> NoMessage, held |-> 0,
               picks |-> 0]
    /\ panel = FALSE
    /\ display = <<>>
    /\ refreshDue = 0
    /\ pendingChats = <<>>
    /\ panelLog = NoPanelLog

\* createNewChat(): the 'lazai.newChat' command
NoteCreation(h, n, firstMessage) ==
    IF n = h.created THEN h
    ELSE [h EXCEPT !.created = n,
                   !.collisions = @ + (IF h.usedAt = clock THEN 1 ELSE 0),
                   !.usedAt = clock,
                   !.first = firstMessage,
                   !.held = Len(chatSessions)]

CreateNewChat ==
    LET st == createNewSession(Store, clock, NoMessage)
    IN  /\ SetStore(st)
        /\ hist' = NoteCreation(hist, st.created, NoMessage)
        /\ display' = refreshChatDisplay(st, panel, display)
        /\ panelLog' = Logged("none")
        /\ UNCHANGED <<clock, panel, refreshDue, pendingChats>>

\* addMessageToSession(role, content)
AddMessage(role, content) ==
    LET st == addMessageToSession(Store, role, content, clock)
    IN  /\ SetStore(st)
        /\ hist' = [NoteCreation(hist, st.created,
                                 IF role = "user" THEN content ELSE NoMessage) EXCEPT
                                !.appends = @ + 1,
                                !.assistant = @ + (IF role = "assistant" THEN 1 ELSE 0)]
        /\ UNCHANGED <<clock, panelVars>>

\* switchToSession(sessionId), from the quick pick of listSessions(); `log`
\* tells whether the step is written to the panel's log
Switch(id, log) ==
    LET st == switchToSession(Store, id)
        i  == FindSession(chatSessions, id)
    IN  /\ SetStore(st)
        /\ hist' = IF i = 0 THEN hist
                   ELSE [hist EXCEPT !.switchedTo =
                                        IF i = 1 THEN chatSessions[1].seq ELSE 0]
        /\ display' = IF i # 0 THEN refreshChatDisplay(st, panel, display) ELSE display
        /\ panelLog' = IF log
                        THEN [Logged("switch") EXCEPT
                                !.known = (i # 0),
                                !.same = (st = Store /\ display' = display),
                                !.became = (st.cur = id),
                                !.kept = (AllMessages(st.sessions) = AllMessages(chatSessions))]
                        ELSE panelLog
        /\ UNCHANGED <<clock, panel, refreshDue, pendingChats>>

SwitchTo(id) == Switch(id, FALSE)

PickSession(id) == Switch(id, TRUE)

ClearsTheStore(id) ==
    /\ chatSessions' = <<>>
    /\ currentSessionId' = NullId
    /\ hist' = [hist EXCEPT !.picks = @ + 1]
    /\ display' = refreshChatDisplay([sessions |-> <<>>, cur |-> NullId], panel, display)
    /\ UNCHANGED <<clock, panel, refreshDue, pendingChats, panelLog>>

\* the 'lazai.clearHistory' command: it calls listSessions(), which with no
\* session shows a message and otherwise a quick pick; id is the session
\* picked, NullId when the pick is dismissed
ClearHistoryCommand(id) ==
    LET picked == chatSessions # <<>> /\ id # NullId
        st == IF picked THEN switchToSession(Store, id) ELSE Store
        i  == FindSession(chatSessions, id)
    IN  /\ SetStore(st)
        /\ hist' = [hist EXCEPT
                        !.picks = @ + 1,
                        !.switchedTo = IF ~picked \/ i = 0 THEN @
                                       ELSE IF i = 1 THEN chatSessions[1].seq ELSE 0]
        /\ display' = IF picked /\ i # 0 THEN refreshChatDisplay(st, panel, display)
                      ELSE display
        /\ UNCHANGED <<clock, panel, refreshDue, pendingChats, panelLog>>

\* Date.now() moves on.  Ids are only compared for equality, so the clock
\* counts the milliseconds in which a session was created.
Tick ==
    /\ hist.usedAt = clock
    /\ clock' = clock + 1
    /\ UNCHANGED <<chatSessions, currentSessionId, hist, panelVars>>

(***************************************************************************)
(* The chat panel.  A shown message, like a stored one, is its role and    *)
(* the ordinal standing for its content.                                   *)
(***************************************************************************)
SystemPrompt == [role |-> "system", n |-> 0]

Front(s) == SubSeq(s, 1, Len(s) - 1)

RequestWithLast(st, userMessage) ==
    LET i == FindSession(st.sessions, st.cur)
        conversationHistory ==
            IF i # 0 THEN SliceLast(st.sessions[i].messages, HistoryWindow) ELSE <<>>
    IN  <<SystemPrompt>> \o conversationHistory \o <<userMessage>>

\* handleChatMessage, lines 211-227: the messages of the request
RequestMessages(st, userMessage) ==
    LET i == FindSession(st.sessions, st.cur)
        conversationHistory ==
            IF i # 0 THEN SliceLast(st.sessions[i].messages, HistoryWindow) ELSE <<>>
    IN  <<SystemPrompt>> \o Front(conversationHistory) \o <<userMessage>>

\* the message the last append put into the current session
Appended(st, role) ==
    LET i == FindSession(st.sessions, st.cur)
    IN  [role |-> role, n |-> IF i # 0 THEN st.sessions[i].total ELSE 0]

\* the session the current id resolves to, by its creation ordinal; 0 when
\* it resolves to none
CurrentSeq(st) ==
    LET i == FindSession(st.sessions, st.cur)
    IN  IF i # 0 THEN st.sessions[i].seq ELSE 0

\* the entry of the log for the message the last append put into the
\* current session
Entry(st, role, text) ==
    [session |-> CurrentSeq(st), role |-> role, n |-> Appended(st, role).n,
     text |-> text]

\* the texts of the appended messages: errorMessage of line 191, errorMsg of
\* line 243, response.text, and the user's text
ApiKeyMissing ==
    "**API Key Missing** Please configure your LazAI API key in VS Code settings: ... Get your free API key at: https://console.groq.com/keys"

ErrorMsg == "**Error**: response.error Please check: ..."

ResponseText == "response.text"

UserText == "userMessage"

CallWhenUnconfigured(st, content, usable, t) ==
    LET st1 == addMessageToSession(st, "user", content, t)
    IN  [store |-> st1, added |-> <<Entry(st1, "user", UserText)>>,
         request |-> RequestMessages(st1, Appended(st1, "user"))]

ChatBehindSingleFlight(st, content, usable, t) ==
    LET st1 == addMessageToSession(st, "user", content, t)
        st2 == addMessageToSession(st1, "assistant", content, t)
    IN  IF ~usable
        THEN [store |-> st2,
              added |-> <<Entry(st1, "user", UserText),
                          Entry(st2, "assistant", ApiKeyMissing)>>,
              request |-> <<>>]
        ELSE IF pendingRequest # 0
        THEN [store |-> st1, added |-> <<Entry(st1, "user", UserText)>>,
              request |-> <<>>]
        ELSE [store |-> st1, added |-> <<Entry(st1, "user", UserText)>>,
              request |-> RequestMessages(st1, Appended(st1, "user"))]

\* handleChatMessage(userMessage) up to its return or its await of
\* lazaiService.chat: the store it leaves, the messages it appended, and the
\* request it sent (<<>> when it sent none); usable is what isConfigured()
\* returns
handleChatMessage(st, content, usable, t) ==
    LET st1 == addMessageToSession(st, "user", content, t)
        st2 == addMessageToSession(st1, "assistant", content, t)
    IN  IF ~usable
        THEN [store |-> st2,
              added |-> <<Entry(st1, "user", UserText),
                          Entry(st2, "assistant", ApiKeyMissing)>>,
              request |-> <<>>]
        ELSE [store |-> st1, added |-> <<Entry(st1, "user", UserText)>>,
              request |-> RequestMessages(st1, Appended(st1, "user"))]

OpenWithoutSession ==
    /\ ~panel
    /\ panel' = TRUE
    /\ display' = <<>>
    /\ refreshDue' = refreshDue + 1
    /\ panelLog' = [Logged("none") EXCEPT !.opens = @ + 1]
    /\ UNCHANGED <<chatSessions, currentSessionId, hist, clock, pendingChats>>

\* openChatPanel(), the 'lazai.openChat' command, when no panel is open
\* (an open panel is revealed and nothing changes)
OpenChatPanel ==
    /\ ~panel
    /\ LET st == IF currentSessionId = NullId \/ Len(chatSessions) = 0
                 THEN createNewSession(Store, clock, NoMessage)
                 ELSE Store
       IN  /\ SetStore(st)
           /\ hist' = NoteCreation(hist, st.created, NoMessage)
    /\ panel' = TRUE
    /\ display' = <<>>
    /\ refreshDue' = refreshDue + 1
    /\ panelLog' = [Logged("none") EXCEPT !.opens = @ + 1]
    /\ UNCHANGED <<clock, pendingChats>>

\* the user closes the panel: onDidDispose
ClosePanel ==
    /\ panel
    /\ panel' = FALSE
    /\ display' = <<>>
    /\ panelLog' = Logged("none")
    /\ UNCHANGED <<chatSessions, currentSessionId, clock, hist, refreshDue, pendingChats>>

\* the callback of setTimeout(() => this.refreshChatDisplay(), 100)
RefreshTimerFires ==
    /\ refreshDue > 0
    /\ refreshDue' = refreshDue - 1
    /\ display' = refreshChatDisplay(Store, panel, display)
    /\ panelLog' = Logged("none")
    /\ UNCHANGED <<chatSessions, currentSessionId, clock, hist, panel, pendingChats>>

\* the webview shows and posts a message, and handleChatMessage runs up to
\* its return or its await of lazaiService.chat
HandleChatMessage(content, usable) ==
    /\ panel
    /\ LET r == handleChatMessage(Store, content, usable, clock)
           shown == [k \in 1..Len(r.added) |->
                        [role |-> r.added[k].role, n |-> r.added[k].n]]
       IN  /\ SetStore(r.store)
           /\ display' = display \o shown
           /\ hist' = [NoteCreation(hist, r.store.created, content) EXCEPT
                            !.appends = @ + Len(r.added),
                            !.assistant = @ + Len(r.added) - 1]
           /\ pendingChats' =
                    IF r.request # <<>>
                    THEN Append(pendingChats,
                                [session |-> r.added[1].session, n |-> r.added[1].n])
                    ELSE pendingChats
           /\ panelLog' = [Logged("send") EXCEPT
                               !.sends = @ + 1,
                               !.usable = usable,
                               !.added = r.added,
                               !.request = r.request]
    /\ UNCHANGED <<clock, panel, refreshDue>>

\* the session with creation ordinal seq, as its index; 0 when the store
\* does not hold it
HeldAt(sessions, seq) ==
    IF \E i \in 1..Len(sessions) : sessions[i].seq = seq
    THEN CHOOSE i \in 1..Len(sessions) : sessions[i].seq = seq
    ELSE 0

AppendToHeld(st, origin, t) ==
    LET i == HeldAt(st.sessions, origin)
    IN  IF i = 0 THEN [store |-> st, session |-> origin, n |-> 0]
        ELSE [store |-> [st EXCEPT
                            !.sessions[i].messages =
                                PushMessage(@, [role |-> "assistant",
                                                n |-> st.sessions[i].total + 1]),
                            !.sessions[i].total = @ + 1],
              session |-> origin, n |-> st.sessions[i].total + 1]

\* handleChatMessage after its await, lines 251 and 260: the store after the
\* assistant's message is appended, the session it went to and its place
\* there; origin is the session found at line 211, before the await
appendReply(st, origin, t) ==
    LET st1 == addMessageToSession(st, "assistant", NoMessage, t)
    IN  [store |-> st1, session |-> CurrentSeq(st1), n |-> Appended(st1, "assistant").n]

\* lazaiService.chat settles for the k-th pending call, with a text or an
\* error: the rest of handleChatMessage.  With the panel closed,
\* this.panel.webview throws in the try block and again in the catch block,
\* and the call ends with that exception before any append.
ChatSettles(k, outcome) ==
    /\ k \in 1..Len(pendingChats)
    /\ pendingChats' = SubSeq(pendingChats, 1, k - 1)
                            \o SubSeq(pendingChats, k + 1, Len(pendingChats))
    /\ IF panel
       THEN LET r == appendReply(Store, pendingChats[k].session, clock)
            IN  /\ SetStore(r.store)
                /\ display' = Append(display, [role |-> "assistant", n |-> r.n])
                /\ hist' = [NoteCreation(hist, r.store.created, NoMessage) EXCEPT
                                !.appends = @ + 1, !.assistant = @ + 1]
                /\ panelLog' = [Logged("settle") EXCEPT
                                    !.origin = pendingChats[k].session,
                                    !.added = <<[session |-> r.session,
                                                 role |-> "assistant", n |-> r.n,
                                                 text |-> IF outcome = "text"
                                                          THEN ResponseText
                                                          ELSE ErrorMsg]>>]
       ELSE /\ UNCHANGED <<chatSessions, currentSessionId, display, hist>>
            /\ panelLog' = [Logged("settle") EXCEPT
                                !.origin = pendingChats[k].session,
                                !.escaped = TRUE]
    /\ UNCHANGED <<clock, panel, refreshDue>>

(***************************************************************************)
(* LazAIInlineCompletionProvider.                                          *)
(*                                                                         *)
(* The text before the cursor is a sequence over Alphabet: a space, a word *)
(* character, '=' and '+'.  Date.now() advances in the steps of TimeSteps, *)
(* whose sums give elapsed times just below, at and above 2000 ms.         *)
(***************************************************************************)
Alphabet  == {" ", "a", "=", "+"}
TimeSteps == {499, 500, 1001}

RECURSIVE SeqsUpTo(_)
SeqsUpTo(n) ==
    IF n = 0 THEN {<<>>}
    ELSE LET shorter == SeqsUpTo(n - 1)
         IN  shorter \cup {Append(t, c) : t \in {u \in shorter : Len(u) = n - 1},
                                          c \in Alphabet}

Texts == SeqsUpTo(MaxText)

\* String.prototype.trim()
\* the white space of the texts of the model
IsSpace(c) == c \in {" ", "\t"}

RECURSIVE TrimLeft(_)
TrimLeft(t) == IF t # <<>> /\ IsSpace(Head(t)) THEN TrimLeft(Tail(t)) ELSE t

RECURSIVE TrimRight(_)
TrimRight(t) ==
    IF t # <<>> /\ IsSpace(t[Len(t)]) THEN TrimRight(SubSeq(t, 1, Len(t) - 1)) ELSE t

Trim(t) == TrimLeft(TrimRight(t))

\* shouldTriggerCompletion(textBeforeCursor).  Of the trigger patterns only
\* /=\s*$/ and /\w+\s*$/ can match a text over Alphabet: every other one
\* needs a character outside it ('(', ':', '.', '[', '/', '{', ';') or a
\* keyword with letters other than 'a'.
shouldTriggerCompletion(t) ==
    LET trimmedText == Trim(t)
    IN  IF Len(trimmedText) = 0 THEN FALSE
        ELSE IF Len(trimmedText) < 2 THEN FALSE
        ELSE LET r == TrimRight(t)
             IN  r[Len(r)] = "=" \/ r[Len(r)] = "a"

RateLimitedInclusive(now, last) == now - last <= minRequestInterval

\* now - this.lastRequestTime < this.minRequestInterval
RateLimited(now, last) == now - last < minRequestInterval

NeverPending(p) == FALSE

\* if (this.pendingRequest)
IsPending(p) == p # 0

\* The inputs of one provideInlineCompletionItems call: config 'enabled',
\* isConfigured(), token.isCancellationRequested, whether
\* document.lineAt(position.line) throws, and the text before the cursor.
ProvideInputs ==
    [enabled : BOOLEAN, configured : BOOLEAN, cancelled : BOOLEAN,
     lineThrows : BOOLEAN, text : Texts]

\* the gates other than the rate limit and the pending request all pass
OtherGatesPass(in) ==
    /\ in.enabled /\ in.configured /\ ~in.cancelled /\ ~in.lineThrows
    /\ Len(Trim(in.text)) # 0
    /\ shouldTriggerCompletion(in.text)

\* What getCompletion's promise can settle with, as the provider sees it.
Outcomes == {"text", "blank", "empty", "error", "rateLimit", "reject"}

GateInit ==
    /\ lastRequestTime = 0
    /\ pendingRequest = 0
    /\ gnow = StartTime
    /\ inflight = {}
    /\ issued = <<>>
    /\ lastCall = [kind |-> "none", pending |-> FALSE, elapsed |-> 0,
                   gates |-> FALSE, issued |-> FALSE, result |-> "null"]

Returned(in, didIssue, res) ==
    [kind |-> "provide", pending |-> pendingRequest # 0,
     elapsed |-> gnow - lastRequestTime, gates |-> OtherGatesPass(in),
     issued |-> didIssue, result |-> res]

StampBeforeTextGates(in) ==
    LET now == gnow
    IN  IF \/ ~in.enabled \/ ~in.configured \/ in.cancelled
           \/ RateLimited(now, lastRequestTime)
           \/ IsPending(pendingRequest)
        THEN /\ lastCall' = Returned(in, FALSE, "null")
             /\ UNCHANGED <<lastRequestTime, pendingRequest, gnow, inflight, issued>>
        ELSE IF in.lineThrows \/ Len(Trim(in.text)) = 0 \/ ~shouldTriggerCompletion(in.text)
        THEN /\ lastRequestTime' = now
             /\ lastCall' = Returned(in, FALSE, "null")
             /\ UNCHANGED <<pendingRequest, gnow, inflight, issued>>
        ELSE LET id == Len(issued) + 1
             IN  /\ lastRequestTime' = now
                 /\ pendingRequest' = id
                 /\ inflight' = inflight \cup {id}
                 /\ issued' = Append(issued, now)
                 /\ lastCall' = Returned(in, TRUE, "awaiting")
                 /\ UNCHANGED gnow

\* provideInlineCompletionItems, up to its return or to the await of line 100
Provide(in) ==
    LET now == gnow
    IN  IF \/ ~in.enabled \/ ~in.configured \/ in.cancelled
           \/ RateLimited(now, lastRequestTime)
           \/ IsPending(pendingRequest)
        THEN /\ lastCall' = Returned(in, FALSE, "null")
             /\ UNCHANGED <<lastRequestTime, pendingRequest, gnow, inflight, issued>>
        ELSE IF in.lineThrows
        THEN \* catch (error): this.pendingRequest = null
             /\ pendingRequest' = 0
             /\ lastCall' = Returned(in, FALSE, "null")
             /\ UNCHANGED <<lastRequestTime, gnow, inflight, issued>>
        ELSE IF Len(Trim(in.text)) = 0 \/ ~shouldTriggerCompletion(in.text)
        THEN /\ lastCall' = Returned(in, FALSE, "null")
             /\ UNCHANGED <<lastRequestTime, pendingRequest, gnow, inflight, issued>>
        ELSE LET id == Len(issued) + 1
             IN  /\ lastRequestTime' = now
                 /\ pendingRequest' = id
                 /\ inflight' = inflight \cup {id}
                 /\ issued' = Append(issued, now)
                 /\ lastCall' = Returned(in, TRUE, "awaiting")
                 /\ UNCHANGED gnow

KeepPendingOnThrow(id, outcome) ==
    /\ id \in inflight
    /\ inflight' = inflight \ {id}
    /\ pendingRequest' = IF outcome = "reject" THEN pendingRequest ELSE 0
    /\ lastCall' = [kind |-> "settle", pending |-> pendingRequest # 0,
                    elapsed |-> gnow - lastRequestTime, gates |-> FALSE,
                    issued |-> FALSE,
                    result |-> IF outcome = "text" THEN "item" ELSE "null"]
    /\ UNCHANGED <<lastRequestTime, gnow, issued>>

StampOnSettle(id, outcome) ==
    /\ id \in inflight
    /\ inflight' = inflight \ {id}
    /\ pendingRequest' = 0
    /\ lastRequestTime' = gnow
    /\ lastCall' = [kind |-> "settle", pending |-> pendingRequest # 0,
                    elapsed |-> gnow - lastRequestTime, gates |-> FALSE,
                    issued |-> FALSE,
                    result |-> IF outcome = "text" THEN "item" ELSE "null"]
    /\ UNCHANGED <<gnow, issued>>

\* the awaited getCompletion promise settles: lines 100-146
Settle(id, outcome) ==
    /\ id \in inflight
    /\ inflight' = inflight \ {id}
    /\ pendingRequest' = 0
    /\ lastCall' = [kind |-> "settle", pending |-> pendingRequest # 0,
                    elapsed |-> gnow - lastRequestTime, gates |-> FALSE,
                    issued |-> FALSE,
                    result |-> IF outcome = "text" THEN "item" ELSE "null"]
    /\ UNCHANGED <<lastRequestTime, gnow, issued>>

\* the sentinel of the prompt
Sentinel == <<"<", "C", "U", "R", "S", "O", "R", ">">>

\* pat occurs in t at place p (from 1)
OccursAt(t, pat, p) ==
    p + Len(pat) - 1 <= Len(t) /\ SubSeq(t, p, p + Len(pat) - 1) = pat

\* String.prototype.includes
Includes(t, pat) == \E p \in 1..Len(t) : OccursAt(t, pat, p)

\* String.prototype.indexOf, from 0; -1 when pat does not occur
IndexOf(t, pat) ==
    IF Includes(t, pat)
    THEN (CHOOSE p \in 1..Len(t) :
            OccursAt(t, pat, p) /\ \A q \in 1..(p - 1) : ~OccursAt(t, pat, q)) - 1
    ELSE -1

\* lines 114-129: the text of the suggestion made from completion.text, <<>>
\* when none is made
cleanCompletion(text) ==
    LET cut == IF Includes(text, Sentinel)
               THEN SubSeq(text, IndexOf(text, Sentinel) + 8 + 1, Len(text))
               ELSE text
    IN  Trim(cut)

RECURSIVE Joined(_)
\* the pieces of ps one after the other
Joined(ps) == IF ps = <<>> THEN <<>> ELSE Head(ps) \o Joined(Tail(ps))

RECURSIVE PiecesUpTo(_)
PiecesUpTo(n) ==
    IF n = 0 THEN {<<>>}
    ELSE LET shorter == PiecesUpTo(n - 1)
         IN  shorter \cup {Append(ps, c) : ps \in {u \in shorter : Len(u) = n - 1},
                                           c \in {<<" ">>, <<"x">>, Sentinel}}

\* the texts getCompletion returns: up to MaxPieces pieces, each a space, a
\* letter or the sentinel
ResponseTexts == {Joined(ps) : ps \in PiecesUpTo(MaxPieces)}

\* the awaited getCompletion promise settles with {text} and no error:
\* lines 100-139; the log keeps the text and the suggestion returned
SettleText(id, text) ==
    /\ id \in inflight
    /\ inflight' = inflight \ {id}
    /\ pendingRequest' = 0
    /\ lastCall' = [kind |-> "settle", pending |-> pendingRequest # 0,
                    elapsed |-> gnow - lastRequestTime, gates |-> FALSE,
                    issued |-> FALSE,
                    result |-> IF text # <<>> /\ cleanCompletion(text) # <<>>
                               THEN "item" ELSE "null",
                    text |-> text,
                    suggestion |-> IF text # <<>> THEN cleanCompletion(text) ELSE <<>>]
    /\ UNCHANGED <<lastRequestTime, gnow, issued>>

\* Date.now() moves on
GateTick(d) ==
    /\ gnow + d <= StartTime + MaxElapsed
    /\ gnow' = gnow + d
    /\ UNCHANGED <<lastRequestTime, pendingRequest, inflight, issued, lastCall>>

(***************************************************************************)
(* LazAIService.  The repository holds two sources of the class:           *)
(*   "A"  src/unnamed/part_002, lines 37-324                               *)
(*   "B"  src/src/inlineCompletionProvider.ts, lines 251-470               *)
(* impl says which one runs; every operator below follows the source of    *)
(* the impl it is given.                                                   *)
(*                                                                         *)
(* A private key is held by what the validation looks at: whether it is    *)
(* set, whether it carries the 0x prefix, the number of characters after   *)
(* trimming and removing the prefix, and whether those are all hex digits. *)
(***************************************************************************)
Impls == {"A", "B"}

HexDigits ==
    {"0", "1", "2", "3", "4", "5", "6", "7", "8", "9",
     "a", "b", "c", "d", "e", "f", "A", "B", "C", "D", "E", "F"}

\* 64 hexadecimal characters
Hex64 == Rep("a", 61) \o <<"F", "0", "9">>

\* an unset privateKey setting
NoKey == <<>>

\* the values of the privateKey setting: unset, 64 hex characters bare,
\* prefixed, and prefixed between spaces, 63 hex characters, 64 characters
\* one of which is no hex digit, 0x and 62 hex characters, and spaces only
PrivateKeys ==
    {NoKey,
     Hex64,
     <<"0", "x">> \o Hex64,
     <<" ", "0", "x">> \o Hex64 \o <<" ">>,
     Rep("a", 63),
     Rep("a", 63) \o <<"g">>,
     <<"0", "x">> \o Rep("a", 62),
     <<" ", " ">>}

\* privateKey.trim(), then slice(2) when it startsWith('0x')
StripKey(k) ==
    LET t == Trim(k)
    IN  IF Len(t) >= 2 /\ t[1] = "0" /\ t[2] = "x" THEN SubSeq(t, 3, Len(t)) ELSE t

\* /^[0-9a-fA-F]{64}$/.test(privateKey)
KeyFormatOk(k) == Len(k) = 64 /\ \A i \in 1..Len(k) : k[i] \in HexDigits

\* the values of the apiKey setting: unset, spaces only, a key
ApiKeys == {"none", "blank", "set"}

\* the configuration section: useAlith, privateKey, apiKey, and lib, whether
\* require('alith') gave ChainConfig, Client and Agent
Configs ==
    [useAlith : BOOLEAN, privateKey : PrivateKeys, apiKey : ApiKeys, lib : BOOLEAN]

FormatErrorA ==
    "Alith initialization failed: Invalid private key format. Expected 64 hex characters, got: N characters"

FormatErrorB == "Invalid private key format. Must be 64 hex characters."

\* initializeAlith(): the agent handle, process.env.PRIVATE_KEY and the
\* messages shown after a run that read cfg, found the handle `agent` and the
\* variable `env`, and whose calls to the coordination layer ended `net`
initializeAlith(im, cfg, agent, env, net) ==
    LET key == StripKey(cfg.privateKey)
        R(a, e, n) == [alithAgent |-> a, envKey |-> e, notices |-> n]
    IN  IF im = "A"
        THEN IF cfg.useAlith /\ cfg.privateKey # <<>> /\ cfg.lib
             THEN \* try { validate; set the key; connect; new Agent }
                  \* catch { showErrorMessage; alithAgent = null }
                  IF ~KeyFormatOk(key) THEN R(FALSE, env, <<FormatErrorA>>)
                  ELSE IF net = "ok"
                  THEN R(TRUE, <<"0", "x">> \o key, <<"Alith Agent connected successfully!">>)
                  ELSE R(FALSE, <<"0", "x">> \o key,
                         <<"Alith initialization failed: connection error">>)
             ELSE R(agent, env,
                    (IF cfg.useAlith /\ cfg.privateKey = <<>>
                     THEN <<"Alith enabled but no private key configured. Please set your private key in settings.">>
                     ELSE <<>>)
                    \o (IF cfg.useAlith /\ ~cfg.lib
                        THEN <<"Alith library not properly installed. Please check your dependencies.">>
                        ELSE <<>>))
        ELSE IF ~cfg.useAlith \/ cfg.privateKey = <<>> THEN R(agent, env, <<>>)
             ELSE IF ~cfg.lib THEN R(agent, env, <<>>)
             ELSE IF ~KeyFormatOk(key) THEN R(agent, env, <<FormatErrorB>>)
             ELSE IF net = "ok" THEN R(TRUE, env, <<>>)
             ELSE R(agent, env, <<>>)

\* isConfigured()
isConfigured(im, cfg) ==
    IF im = "A"
    THEN IF cfg.useAlith THEN cfg.privateKey # <<>> /\ cfg.lib
         ELSE cfg.apiKey # "none"
    ELSE IF cfg.useAlith /\ cfg.privateKey # <<>> /\ Len(Trim(cfg.privateKey)) > 0
         THEN TRUE
         ELSE cfg.apiKey = "set"

(***************************************************************************)
(* Requests.  A chat request is its messages; a completion request is its  *)
(* prompt.                                                                 *)
(***************************************************************************)
Msg(r, c) == [role |-> r, content |-> c]

ChatRequests ==
    {<<Msg("system", "sys"), Msg("user", "q1")>>,
     <<Msg("system", "sys"), Msg("user", "h1"), Msg("assistant", "r1"),
       Msg("user", "q2")>>}

Prompts == {"p1"}

Requests(kind) == IF kind = "chat" THEN ChatRequests ELSE Prompts

RECURSIVE UserContents(_)
\* request.messages.filter(msg => msg.role === 'user').map(msg => msg.content)
UserContents(ms) ==
    IF ms = <<>> THEN <<>>
    ELSE IF Head(ms).role = "user"
         THEN <<Head(ms).content>> \o UserContents(Tail(ms))
         ELSE UserContents(Tail(ms))

\* what is handed to the agent
AgentPayload(im, kind, req) ==
    IF im = "A"
    THEN IF kind = "chat" THEN UserContents(req)
         ELSE <<"Complete this code based on context: ", req>>
    ELSE req

\* the messages of the body posted to /chat/completions
CloudPayload(im, kind, req) ==
    IF kind = "chat" THEN req
    ELSE <<Msg("system", "completion-system-prompt"), Msg("user", req)>>

(***************************************************************************)
(* Results: {text, error?}.  NoError is an absent error field.             *)
(***************************************************************************)
NoError == "<undefined>"

Ok(text)  == [text |-> text, error |-> NoError]
Err(msg)  == [text |-> "", error |-> msg]

\* ways the agent call can end
AgentOutcomes(im) ==
    IF im = "A" THEN {"ok", "empty", "throw"}
    ELSE {"ok", "empty", "noChoices", "throw"}

\* ways the fetch of makeRequest and the reading of its response can end
CloudOutcomes ==
    {"ok", "emptyContent", "noContent", "noChoices", "http", "rateLimit", "network"}

\* an outcome after which the backend has produced no completion
IsFailure(outcome) ==
    outcome \in {"throw", "noKey", "http", "rateLimit", "network", "noChoices",
                 "noContent"}

\* the error makeRequest throws for an outcome, "" when it returns
MakeRequestError(im, outcome) ==
    CASE outcome = "noKey" ->
            IF im = "A" THEN "LazAI API key not configured. Please set it in settings."
            ELSE "API key not configured"
      [] outcome = "http" ->
            IF im = "A" THEN "API request failed: 500 - message" ELSE "HTTP 500: body"
      [] outcome = "rateLimit" ->
            IF im = "A" THEN "API request failed: 429 - Rate limit reached"
            ELSE "HTTP 429: Rate limit reached"
      [] outcome = "network" -> "fetch failed"
      [] OTHER -> ""

\* error.message.includes('Rate limit')
IncludesRateLimit(msg) ==
    msg \in {"API request failed: 429 - Rate limit reached", "HTTP 429: Rate limit reached"}

\* the outer catch of getCompletion / chat
OuterCatch(im, kind, msg) ==
    IF im = "A" /\ IncludesRateLimit(msg)
    THEN IF kind = "chat"
         THEN Err("Rate limit reached on Groq API. Please configure your private key to use Alith Agent for unlimited access, or wait before trying again.")
         ELSE Err("Rate limit reached. Please use Alith Agent by configuring your private key, or wait before trying again.")
    ELSE Err(msg)

\* the result of the cloud path for an outcome of makeRequest
CloudResult(im, kind, outcome) ==
    IF MakeRequestError(im, outcome) # ""
    THEN OuterCatch(im, kind, MakeRequestError(im, outcome))
    ELSE CASE outcome = "ok" -> Ok("T")
           [] outcome = "noChoices" ->
                Err(IF kind = "chat" THEN "No response generated"
                    ELSE "No completion generated")
           [] outcome = "emptyContent" -> Ok("")
           [] outcome = "noContent" ->
                \* A: undefined.trim() throws a TypeError into the outer catch
                \* B: message?.content || ''
                IF im = "A"
                THEN OuterCatch(im, kind, "Cannot read properties of undefined (reading 'trim')")
                ELSE Ok("")

(***************************************************************************)
(* The call in progress.  pc is "idle", "agent" (awaiting the agent),      *)
(* "cloud" (awaiting fetch) or "done"; trace lists the backend calls the   *)
(* call has made, in order, each with what it was given and how it ended;  *)
(* useAlithAtStart and agentAtStart are the flag and the handle when the   *)
(* call began.                                                             *)
(***************************************************************************)
IdleCall ==
    [pc |-> "idle", kind |-> "none", req |-> <<>>, useAlithAtStart |-> FALSE,
     agentAtStart |-> FALSE, trace |-> <<>>, result |-> Ok("")]

Done(c, res) == [c EXCEPT !.pc = "done", !.result = res]

Called(c, to, payload, outcome) ==
    [c EXCEPT !.trace = Append(@, [to |-> to, payload |-> payload, outcome |-> outcome])]

Ended(c, outcome) == [c EXCEPT !.trace[Len(c.trace)].outcome = outcome]

\* makeRequest('/chat/completions', body) up to its fetch
MakeRequest(im, c, cfg) ==
    IF cfg.apiKey = "none"
    THEN Done(Called(c, "cloud", CloudPayload(im, c.kind, c.req), "noKey"),
              CloudResult(im, c.kind, "noKey"))
    ELSE [Called(c, "cloud", CloudPayload(im, c.kind, c.req), "pending")
            EXCEPT !.pc = "cloud"]

CallAgent(im, c) ==
    [Called(c, "agent", AgentPayload(im, c.kind, c.req), "pending") EXCEPT !.pc = "agent"]

NotInitialized ==
    Err("Alith Agent not initialized. Please configure your private key in settings.")

\* A, the code after the agent block: part_002 lines 193-230 and 266-294
AfterAgentA(im, c, cfg, agent) ==
    IF c.kind = "completion"
    THEN IF cfg.useAlith THEN Done(c, NotInitialized) ELSE MakeRequest(im, c, cfg)
    ELSE IF cfg.useAlith /\ ~agent THEN Done(c, NotInitialized)
         ELSE MakeRequest(im, c, cfg)

CloudFirst(im, c, cfg, agent) ==
    IF im = "A" THEN AfterAgentA(im, c, cfg, agent) ELSE MakeRequest(im, c, cfg)

\* getCompletion / chat up to the first await or return
Begin(im, c, cfg, agent) ==
    IF im = "A"
    THEN IF agent THEN CallAgent(im, c) ELSE AfterAgentA(im, c, cfg, agent)
    ELSE IF cfg.useAlith /\ agent THEN CallAgent(im, c) ELSE MakeRequest(im, c, cfg)

CompletionFallsBack(im, c, cfg, agent, outcome) ==
    IF outcome \in {"ok", "empty"}
    THEN Done(Ended(c, outcome), Ok(IF outcome = "ok" THEN "T" ELSE ""))
    ELSE MakeRequest(im, Ended(c, outcome), cfg)

\* the agent call ends: the rest of the agent block, and what follows it
AfterAgent(im, c, cfg, agent, outcome) ==
    LET c1 == Ended(c, outcome)
    IN  IF outcome \in {"ok", "empty"}
        THEN Done(c1, Ok(IF outcome = "ok" THEN "T" ELSE ""))
        ELSE IF im = "A"
        THEN IF c.kind = "completion"
             THEN Done(c1, Err("Alith Agent failed: Error: agent error. Please check your private key and node connection."))
             ELSE AfterAgentA(im, c1, cfg, agent)
        ELSE IF outcome = "noChoices" THEN MakeRequest(im, c1, cfg)
             ELSE Done(c1, OuterCatch(im, c.kind, "agent error"))

\* fetch ends: the rest of makeRequest and of the cloud path
AfterCloud(im, c, outcome) ==
    Done(Ended(c, outcome), CloudResult(im, c.kind, outcome))

(***************************************************************************)
(* Actions of the service.                                                 *)
(***************************************************************************)
SvcInit ==
    /\ impl \in Impls
    /\ config \in Configs
    /\ alithAgent = FALSE
    /\ inits = 0
    /\ envKey = <<>>
    /\ notices = <<>>
    /\ configured = <<>>
    /\ call = IdleCall

\* the service of the store's and the provider's specifications
SvcIdle ==
    /\ impl = "A"
    /\ config = [useAlith |-> FALSE, privateKey |-> NoKey, apiKey |-> "none",
                 lib |-> TRUE]
    /\ alithAgent = FALSE
    /\ inits = 0
    /\ envKey = <<>>
    /\ notices = <<>>
    /\ configured = <<>>
    /\ call = IdleCall

\* initializeAlith(), from the constructor and, in A, from reinitialize()
InitializeAlith(net) ==
    /\ inits < (IF impl = "A" THEN MaxInits ELSE 1)
    /\ inits' = inits + 1
    /\ LET r == initializeAlith(impl, config, alithAgent, envKey, net)
       IN  /\ alithAgent' = r.alithAgent
           /\ envKey' = r.envKey
           /\ notices' = r.notices
    /\ UNCHANGED <<impl, config, configured, call>>

\* the messages of the 'lazai.reinitializeAlith' command
Reinitializing == "Reinitializing Alith connection..."

Reinitialized == "Alith connection reinitialized successfully!"

\* the 'lazai.reinitializeAlith' command: new LazAIService() runs
\* initializeAlith on an instance of its own, whose handle starts null and
\* which is dropped when the command returns; the instance the chat provider
\* holds is not touched.  notices are the command's two messages, then those
\* of the new instance's run.  The command is registered after the shared
\* instance is constructed.
ReinitializeAlithCommand(net) ==
    /\ inits >= 1
    /\ LET r == initializeAlith(impl, config, FALSE, envKey, net)
       IN  /\ envKey' = r.envKey
           /\ notices' = <<Reinitializing, Reinitialized>> \o r.notices
    /\ UNCHANGED <<impl, config, alithAgent, inits, configured, call>>

\* the user edits one of the settings
SetConfig(cfg) ==
    /\ cfg.lib = config.lib
    /\ Cardinality({f \in {"useAlith", "privateKey", "apiKey"} : cfg[f] # config[f]}) = 1
    /\ config' = cfg
    /\ configured' = <<>>
    /\ UNCHANGED <<impl, alithAgent, inits, envKey, notices, call>>

\* isConfigured() is called
IsConfiguredCall ==
    /\ configured' = <<isConfigured(impl, config)>>
    /\ UNCHANGED <<impl, config, alithAgent, inits, envKey, notices, call>>

\* getCompletion(request) or chat(request) is called
StartCall(kind, req) ==
    /\ call.pc \in {"idle", "done"}
    /\ call' = Begin(impl,
                     [IdleCall EXCEPT !.kind = kind, !.req = req,
                                      !.useAlithAtStart = config.useAlith,
                                      !.agentAtStart = alithAgent],
                     config, alithAgent)
    /\ UNCHANGED <<impl, config, alithAgent, inits, envKey, notices, configured>>

\* the agent call settles
AgentSettles(outcome) ==
    /\ call.pc = "agent"
    /\ outcome \in AgentOutcomes(impl)
    /\ call' = AfterAgent(impl, call, config, alithAgent, outcome)
    /\ UNCHANGED <<impl, config, alithAgent, inits, envKey, notices, configured>>

\* the fetch of makeRequest settles
CloudSettles(outcome) ==
    /\ call.pc = "cloud"
    /\ call' = AfterCloud(impl, call, outcome)
    /\ UNCHANGED <<impl, config, alithAgent, inits, envKey, notices, configured>>

(***************************************************************************)
(* The chat detector (part_000).  Texts are sequences of characters.       *)
(***************************************************************************)
Docs == {"d1", "d2"}

NoDoc == "none"

\* String.prototype.toLowerCase on the letters of the model, for the i flag
LowerChar(c) ==
    CASE c = "C" -> "c" [] c = "H" -> "h" [] c = "A" -> "a" [] c = "T" -> "t"
      [] OTHER -> c

RECURSIVE SkipSpace(_)
\* \s* at the head of t: what is left of t after it
SkipSpace(t) == IF t # <<>> /\ IsSpace(Head(t)) THEN SkipSpace(Tail(t)) ELSE t

StartsWith(t, pre) == Len(t) >= Len(pre) /\ SubSeq(t, 1, Len(pre)) = pre

Drop(t, n) == SubSeq(t, n + 1, Len(t))

ChatMatchNoSpace(trimmedLine) ==
    LET a == SkipSpace(trimmedLine)
        b == IF StartsWith(a, <<"/", "/">>) THEN SkipSpace(Drop(a, 2))
             ELSE IF StartsWith(a, <<"#">>) THEN SkipSpace(Drop(a, 1))
             ELSE a
        e == SkipSpace(Drop(b, 4))
    IN  IF Len(b) >= 4
           /\ [i \in 1..4 |-> LowerChar(b[i])] = <<"c", "h", "a", "t">>
           /\ e # <<>>
        THEN <<e>>
        ELSE <<>>

\* trimmedLine.match(/^(\s*(?:\/\/\s*|#\s*)?)\s*chat\s+(.+)$/i): <<>> when
\* there is no match, <<group 2>> when there is one
ChatMatch(trimmedLine) ==
    LET a == SkipSpace(trimmedLine)
        b == IF StartsWith(a, <<"/", "/">>) THEN SkipSpace(Drop(a, 2))
             ELSE IF StartsWith(a, <<"#">>) THEN SkipSpace(Drop(a, 1))
             ELSE a
        c == SkipSpace(b)
        d == Drop(c, 4)
        e == SkipSpace(d)
    IN  IF Len(c) >= 4
           /\ [i \in 1..4 |-> LowerChar(c[i])] = <<"c", "h", "a", "t">>
           /\ d # <<>> /\ IsSpace(Head(d))
        THEN IF e # <<>> THEN <<e>>
             \* \s+ gives its last character back to (.+)
             ELSE <<<<d[Len(d)]>>>>
        ELSE <<>>

\* lines 41-54 for one newline change: the handleChatTrigger calls scheduled
Triggers(document, line, lineText) ==
    LET chatMatch == ChatMatch(Trim(lineText))
    IN  IF chatMatch # <<>> /\ Len(Trim(chatMatch[1])) > 0
        THEN <<[document |-> document, line |-> line,
                question |-> Trim(chatMatch[1]), originalLineText |-> lineText]>>
        ELSE <<>>

Newlines == {"\n", "\r\n"}

IgnoreGates(enabled, active, document) == TRUE

\* the checks of lines 23-33
GatesPass(enabled, active, document) == enabled /\ active # NoDoc /\ active = document

\* onDocumentChange(event), for an event with one content change
onDocumentChange(enabled, active, document, text, line, lineText) ==
    IF ~GatesPass(enabled, active, document) THEN <<>>
    ELSE IF text \in Newlines THEN Triggers(document, line, lineText)
    ELSE <<>>

\* the parts lines are put together from
LineLeads == {<<>>, <<" ">>}
LineMarkers == {<<>>, <<"/", "/">>, <<"#">>, <<"/", "*">>, <<"/", "/", "/">>}
LineGaps == {<<>>, <<" ">>, <<"\t">>}
LineWords == {<<"c", "h", "a", "t">>, <<"C", "H", "A", "T">>, <<"c", "H", "a", "T">>,
              <<"c", "h", "a">>}
LineSeps == {<<>>, <<" ">>, <<" ", "\t">>}
LineRests == {<<>>, <<"q">>, <<"q", " ">>, <<"q", " ", "*", "/">>,
              <<"b", "o", "t", " ", "i", "s", " ", "c", "o", "o", "l">>,
              <<"h", "o", "w", " ", "d", "o", " ", "I", " ", "s", "o", "r", "t", " ", "a", "n", " ", "a", "r", "r", "a", "y">>}

\* the lines a user may have typed before Enter
Lines ==
    {lead \o marker \o gap \o word \o sep \o rest :
        lead \in LineLeads, marker \in LineMarkers, gap \in LineGaps,
        word \in LineWords, sep \in LineSeps, rest \in LineRests}

\* '// chat how do I sort an array', '/* chat q */' and 'chatbot is cool'
SortLine == <<"/", "/", " ", "c", "h", "a", "t", " ", "h", "o", "w", " ", "d", "o", " ", "I", " ", "s", "o", "r", "t", " ", "a", "n", " ", "a", "r", "r", "a", "y">>
BlockLine == <<"/", "*", " ", "c", "h", "a", "t", " ", "q", " ", "*", "/">>
ChatbotLine == <<"c", "h", "a", "t", "b", "o", "t", " ", "i", "s", " ", "c", "o", "o", "l">>

\* the lines of the detector's full specification
FewLines == {<<>>, <<"#", "c", "h", "a", "t", " ", "q">>}

\* the log: the kind of the step, its document, for a change its text, the
\* line Enter completed and whether the flag was on and the document the
\* active editor's, what the step scheduled, deleted and invoked, for a step
\* of an inline query the query (its place in queries), how far it got and
\* the error message the step showed, and the number of Enter events so far
NoLog == [kind |-> "none", document |-> NoDoc, text |-> "", lineText |-> <<>>,
          gates |-> FALSE, scheduled |-> <<>>, deleted |-> 0, invoked |-> 0,
          query |-> 0, outcome |-> "none", surfaced |-> <<>>,
          enters |-> 0]

\* showErrorMessage of line 284, and of line 323 for response.error
ConfigureFirst == <<"Please configure your LazAI API key in the settings first.">>

LazAIError(error) == <<"LazAI Error: ", error>>

RecordInlineTurn(st, query, t) == addMessageToSession(st, "user", query, t)

\* the session store after handleInlineChatQuery(query, ..): the method reads
\* and writes neither chatSessions nor currentSessionId
inlineStore(st, query, t) == st

\* the callback of withProgress once lazaiService.chat has settled, lines
\* 322-350: the error message shown, and whether the answer is inserted
inlineReply(response, active) ==
    IF response.error \notin {NoError, ""}
    THEN [surfaced |-> LazAIError(response.error), insert |-> FALSE]
    ELSE [surfaced |-> <<>>, insert |-> active # NoDoc]

DetIdle ==
    /\ chatEnabled = TRUE
    /\ activeEditor = NoDoc
    /\ docs = [d \in Docs |-> [lineCount |-> 1, typed |-> <<>>]]
    /\ timers = <<>>
    /\ editing = <<>>
    /\ edits = <<>>
    /\ queries = <<>>
    /\ inlineCalls = <<>>
    /\ errorsShown = <<>>
    /\ inserts = <<>>
    /\ detLog = NoLog

\* the detector is activated with the flag in `flags`, the active editor in
\* `editors`, and a line of `lines` typed in document d1
DetInit(flags, editors, lines) ==
    /\ chatEnabled \in flags
    /\ activeEditor \in editors
    /\ \E typed \in lines :
        docs = [d \in Docs |-> [lineCount |-> 1,
                                typed |-> IF d = "d1" THEN typed ELSE <<>>]]
    /\ timers = <<>>
    /\ editing = <<>>
    /\ edits = <<>>
    /\ queries = <<>>
    /\ inlineCalls = <<>>
    /\ errorsShown = <<>>
    /\ inserts = <<>>
    /\ detLog = NoLog

\* the user, or an extension, changes a document: Enter on the line being
\* typed (text is a newline), or the line being typed is replaced by newLine;
\* onDocumentChange runs on the event
DocumentChange(document, text, newLine) ==
    LET doc == docs[document]
        line == doc.lineCount - 1
        scheduled == onDocumentChange(chatEnabled, activeEditor, document, text,
                                      line, doc.typed)
    IN  /\ UNCHANGED <<chatEnabled, activeEditor, editing, edits, queries, inlineVars>>
        /\ docs' = [docs EXCEPT ![document] =
                        IF text \in Newlines
                        THEN [lineCount |-> doc.lineCount + 1, typed |-> <<>>]
                        ELSE [doc EXCEPT !.typed = newLine]]
        /\ timers' = timers \o scheduled
        /\ detLog' = [NoLog EXCEPT
                        !.kind = "change", !.document = document, !.text = text,
                        !.lineText = IF text \in Newlines THEN doc.typed ELSE <<>>,
                        !.gates = chatEnabled /\ activeEditor = document,
                        !.scheduled = scheduled,
                        !.deleted = Len(edits') - Len(edits),
                        !.invoked = Len(queries') - Len(queries),
                        !.enters = detLog.enters + IF text \in Newlines THEN 1 ELSE 0]

\* the user switches lazai.chatEnabled
ToggleChat ==
    /\ chatEnabled' = ~chatEnabled
    /\ UNCHANGED <<activeEditor, docs, timers, editing, edits, queries, inlineVars, detLog>>

\* another editor, or none, becomes the active one
FocusEditor(d) ==
    /\ d # activeEditor
    /\ activeEditor' = d
    /\ UNCHANGED <<chatEnabled, docs, timers, editing, edits, queries, inlineVars, detLog>>

\* lines are removed from a document
RemoveLine(document) ==
    /\ docs[document].lineCount > 1
    /\ docs' = [docs EXCEPT ![document].lineCount = @ - 1]
    /\ UNCHANGED <<chatEnabled, activeEditor, timers, editing, edits, queries, inlineVars,
                   detLog>>

LineUpToCount(line, lineCount) == ~(line < 0 \/ line > lineCount)

\* handleChatTrigger, line 70: the negation of
\* line < 0 || line >= document.lineCount
lineInRange(line, lineCount) == ~(line < 0 \/ line >= lineCount)

\* the oldest timer fires: handleChatTrigger up to its await of editor.edit
TimerFires ==
    /\ timers # <<>>
    /\ UNCHANGED <<chatEnabled, activeEditor, docs, queries, inlineVars>>
    /\ LET t == Head(timers)
           valid == activeEditor # NoDoc
                    /\ lineInRange(t.line, docs[t.document].lineCount)
       IN  /\ timers' = Tail(timers)
           /\ editing' = IF valid THEN Append(editing, t) ELSE editing
           /\ edits' = IF valid
                       THEN Append(edits, [document |-> activeEditor, line |-> t.line,
                                           from |-> 0, to |-> Len(t.originalLineText)])
                       ELSE edits
           /\ detLog' = [NoLog EXCEPT !.kind = "trigger", !.document = t.document,
                                      !.deleted = Len(edits') - Len(edits),
                                      !.invoked = Len(queries') - Len(queries),
                                      !.enters = detLog.enters]

\* editor.edit resolves: the rest of handleChatTrigger, with
\* handleInlineChatQuery(question, document, position) up to its return:
\* unconfigured it shows an error, else it starts lazaiService.chat inside
\* withProgress, which it does not await
EditResolves ==
    /\ editing # <<>>
    /\ UNCHANGED <<chatEnabled, activeEditor, docs, timers, edits, inserts>>
    /\ LET t == Head(editing)
           validLine == IF t.line <= docs[t.document].lineCount - 1 THEN t.line
                        ELSE docs[t.document].lineCount - 1
           usable == isConfigured(impl, config)
       IN  /\ editing' = Tail(editing)
           /\ queries' = Append(queries, [question |-> t.question,
                                          document |-> t.document,
                                          line |-> IF validLine < 0 THEN 0 ELSE validLine])
           /\ inlineCalls' = IF usable THEN Append(inlineCalls, Len(queries) + 1)
                             ELSE inlineCalls
           /\ errorsShown' = IF usable THEN errorsShown ELSE Append(errorsShown, ConfigureFirst)
           /\ SetStore(inlineStore(Store, t.question, clock))
           /\ detLog' = [NoLog EXCEPT !.kind = "query", !.document = t.document,
                                      !.deleted = Len(edits') - Len(edits),
                                      !.invoked = Len(queries') - Len(queries),
                                      !.query = Len(queries) + 1,
                                      !.outcome = IF usable THEN "pending"
                                                  ELSE "unconfigured",
                                      !.surfaced = IF usable THEN <<>> ELSE ConfigureFirst,
                                      !.enters = detLog.enters]

\* lazaiService.chat settles for the k-th pending inline query: the rest of
\* the callback of withProgress
InlineSettles(k, response) ==
    /\ k \in 1..Len(inlineCalls)
    /\ UNCHANGED <<chatEnabled, activeEditor, docs, timers, editing, edits, queries>>
    /\ LET q == inlineCalls[k]
           r == inlineReply(response, activeEditor)
       IN  /\ inlineCalls' = SubSeq(inlineCalls, 1, k - 1)
                                \o SubSeq(inlineCalls, k + 1, Len(inlineCalls))
           /\ errorsShown' = errorsShown \o (IF r.surfaced # <<>> THEN <<r.surfaced>> ELSE <<>>)
           /\ inserts' = IF r.insert
                         THEN Append(inserts, [query |-> q, document |-> activeEditor,
                                               line |-> queries[q].line])
                         ELSE inserts
           /\ SetStore(inlineStore(Store, queries[q].question, clock))
           /\ detLog' = [NoLog EXCEPT !.kind = "settle",
                                      !.document = queries[q].document,
                                      !.query = q,
                                      !.outcome = IF r.surfaced # <<>> THEN "error"
                                                  ELSE IF r.insert THEN "inserted"
                                                  ELSE "noEditor",
                                      !.surfaced = r.surfaced,
                                      !.enters = detLog.enters]

(***************************************************************************)
(* The specifications of the store.  Spec runs the store's operations in   *)
(* any order, with few appends; SpecLong runs few sessions through many    *)
(* appends, so that a session goes past its 50 messages.                   *)
(***************************************************************************)
Init == StoreInit /\ GateInit /\ SvcIdle /\ DetIdle

\* a creation is explored when its millisecond is fresh, or when it follows
\* one of the first MaxCollisions sessions
MayCreate(st) ==
    st.created = hist.created \/ hist.usedAt # clock \/ hist.created <= MaxCollisions

CreateStep(maxCreates) ==
    /\ hist.created < maxCreates
    /\ MayCreate(createNewSession(Store, clock, NoMessage))
    /\ CreateNewChat
    /\ UNCHANGED <<gateVars, svcVars, detVars>>

AppendStep(maxCreates, maxAppends, maxAssistant, contents) ==
    /\ hist.appends < maxAppends
    /\ \E role \in Roles,
          content \in (IF currentSessionId = NullId THEN contents ELSE {Rep("m", 1)}) :
        /\ role = "assistant" => hist.appends < maxAssistant
        /\ MayCreate(addMessageToSession(Store, role, content, clock))
        /\ addMessageToSession(Store, role, content, clock).created <= maxCreates
        /\ AddMessage(role, content)
    /\ UNCHANGED <<gateVars, svcVars, detVars>>

SwitchStep ==
    /\ \E id \in 0..clock : SwitchTo(id)
    /\ UNCHANGED <<gateVars, svcVars, detVars>>

TickStep ==
    /\ Tick
    /\ UNCHANGED <<gateVars, svcVars, detVars>>

PickSessionStep ==
    /\ \E id \in 0..clock : PickSession(id)
    /\ UNCHANGED <<gateVars, svcVars, detVars>>

Next ==
    \/ CreateStep(MaxCreates)
    \/ AppendStep(MaxCreates, MaxAppends, MaxAppends, Contents)
    \/ SwitchStep
    \/ TickStep

Spec == Init /\ [][Next]_vars

NextLong ==
    \/ CreateStep(MaxLongCreates)
    \/ AppendStep(MaxLongCreates, MaxLongAppends, MaxAssistant, {Rep("m", 1)})
    \/ SwitchStep
    \/ TickStep

SpecLong == Init /\ [][NextLong]_vars

\* the store's operations and the 'clear history' command, over one session
\* that grows past its 50 messages and then ten further sessions
ClearHistoryStep ==
    /\ hist.picks < MaxPicks
    /\ \E id \in {chatSessions[i].id : i \in 1..Len(chatSessions)} \cup {NullId} :
            ClearHistoryCommand(id)
    /\ UNCHANGED <<gateVars, svcVars, detVars>>

\* messages are appended while the first session is the only one
FirstSessionAppendStep ==
    /\ Len(chatSessions) <= 1
    /\ AppendStep(MaxCreates, MaxLongAppends, MaxAssistant, {Rep("m", 1)})

NextLeave ==
    \/ CreateStep(MaxCreates)
    \/ FirstSessionAppendStep
    \/ ClearHistoryStep
    \/ TickStep

SpecLeave == Init /\ [][NextLeave]_vars

(***************************************************************************)
(* The specification of the chat panel: the panel is opened and closed,    *)
(* messages arrive from it and their backend calls settle, while sessions  *)
(* are created and switched.                                               *)
(***************************************************************************)
OpenChatPanelStep ==
    /\ panelLog.opens < MaxOpens
    /\ OpenChatPanel
    /\ UNCHANGED <<gateVars, svcVars, detVars>>

ClosePanelStep ==
    /\ ClosePanel
    /\ UNCHANGED <<gateVars, svcVars, detVars>>

RefreshTimerFiresStep ==
    /\ RefreshTimerFires
    /\ UNCHANGED <<gateVars, svcVars, detVars>>

HandleChatMessageStep(maxSends) ==
    /\ panelLog.sends < maxSends
    /\ Len(pendingChats) < MaxPending
    /\ \E usable \in BOOLEAN : HandleChatMessage(Rep("m", 1), usable)
    /\ UNCHANGED <<gateVars, svcVars, detVars>>

ChatSettlesStep ==
    /\ \E k \in 1..Len(pendingChats), outcome \in {"text", "error"} : ChatSettles(k, outcome)
    /\ UNCHANGED <<gateVars, svcVars, detVars>>

NextPanel ==
    \/ OpenChatPanelStep
    \/ ClosePanelStep
    \/ RefreshTimerFiresStep
    \/ HandleChatMessageStep(MaxSends)
    \/ ChatSettlesStep
    \/ CreateStep(MaxPanelCreates)
    \/ PickSessionStep
    \/ TickStep

SpecPanel == Init /\ [][NextPanel]_vars

\* one panel, one session, a long conversation
NextTalk ==
    \/ OpenChatPanelStep
    \/ RefreshTimerFiresStep
    \/ HandleChatMessageStep(MaxTalkSends)
    \/ ChatSettlesStep

SpecTalk == Init /\ [][NextTalk]_vars

\* a panel message's call is pending while sessions are created until the
\* store evicts
NextEvict ==
    \/ OpenChatPanelStep
    \/ HandleChatMessageStep(MaxSends)
    \/ ChatSettlesStep
    \/ CreateStep(MaxCreates)
    \/ TickStep

SpecEvict == Init /\ [][NextEvict]_vars

(***************************************************************************)
(* The specification of the completion provider: calls arrive with any     *)
(* inputs, pending calls settle with any outcome or stay pending, and time *)
(* passes.                                                                 *)
(***************************************************************************)
ProvideStep ==
    /\ \E in \in ProvideInputs : Provide(in)
    /\ UNCHANGED <<storeVars, svcVars, detVars>>

SettleStep ==
    /\ \E id \in inflight, outcome \in Outcomes : Settle(id, outcome)
    /\ UNCHANGED <<storeVars, svcVars, detVars>>

GateTickStep ==
    /\ \E d \in TimeSteps : GateTick(d)
    /\ UNCHANGED <<storeVars, svcVars, detVars>>

NextGate == ProvideStep \/ SettleStep \/ GateTickStep

SpecGate == Init /\ [][NextGate]_vars

(***************************************************************************)
(* The specification of the service: it is constructed under any           *)
(* configuration, the settings change at any time, and one getCompletion   *)
(* or chat call at a time runs through its backends.                       *)
(***************************************************************************)
InitSvc == StoreInit /\ GateInit /\ SvcInit /\ DetIdle

InitializeStep ==
    /\ \E net \in {"ok", "fail"} : InitializeAlith(net)
    /\ UNCHANGED <<storeVars, gateVars, detVars>>

ReinitializeCommandStep ==
    /\ \E net \in {"ok", "fail"} : ReinitializeAlithCommand(net)
    /\ UNCHANGED <<storeVars, gateVars, detVars>>

SetConfigStep ==
    /\ \E cfg \in Configs : SetConfig(cfg)
    /\ UNCHANGED <<storeVars, gateVars, detVars>>

StartCallStep ==
    /\ \E kind \in {"completion", "chat"} : \E req \in Requests(kind) : StartCall(kind, req)
    /\ UNCHANGED <<storeVars, gateVars, detVars>>

AgentSettlesStep ==
    /\ \E outcome \in AgentOutcomes(impl) : AgentSettles(outcome)
    /\ UNCHANGED <<storeVars, gateVars, detVars>>

CloudSettlesStep ==
    /\ \E outcome \in CloudOutcomes : CloudSettles(outcome)
    /\ UNCHANGED <<storeVars, gateVars, detVars>>

NextSvc ==
    \/ InitializeStep
    \/ SetConfigStep
    \/ StartCallStep
    \/ AgentSettlesStep
    \/ CloudSettlesStep

SpecSvc == InitSvc /\ [][NextSvc]_vars

(***************************************************************************)
(* The specification of the service's configuration: the settings change,  *)
(* the agent is established again, and isConfigured() is asked.            *)
(***************************************************************************)
IsConfiguredStep ==
    /\ IsConfiguredCall
    /\ UNCHANGED <<storeVars, gateVars, detVars>>

NextCfg ==
    \/ InitializeStep
    \/ ReinitializeCommandStep
    \/ SetConfigStep
    \/ IsConfiguredStep

SpecCfg == InitSvc /\ [][NextCfg]_vars

(***************************************************************************)
(* The specifications of the chat detector.  SpecMatch completes any line  *)
(* of Lines with Enter while the flag is on and the document is the active *)
(* editor's; SpecDetect runs the detector on few lines while the flag, the *)
(* active editor and the documents change.                                 *)
(***************************************************************************)
InitMatch ==
    StoreInit /\ GateInit /\ SvcIdle
        /\ DetInit({TRUE}, {"d1"}, Lines \cup {SortLine, BlockLine, ChatbotLine})

InitDetect ==
    StoreInit /\ GateInit /\ SvcIdle /\ DetInit(BOOLEAN, Docs \cup {NoDoc}, FewLines)

EnterStep ==
    /\ detLog.enters < MaxEnters
    /\ \E document \in Docs, text \in Newlines : DocumentChange(document, text, <<>>)
    /\ UNCHANGED <<storeVars, gateVars, svcVars>>

TypeStep ==
    /\ \E document \in Docs, newLine \in FewLines :
        /\ newLine # docs[document].typed
        /\ DocumentChange(document, "x", newLine)
    /\ UNCHANGED <<storeVars, gateVars, svcVars>>

ToggleChatStep ==
    /\ ToggleChat
    /\ UNCHANGED <<storeVars, gateVars, svcVars>>

FocusEditorStep ==
    /\ \E d \in Docs \cup {NoDoc} : FocusEditor(d)
    /\ UNCHANGED <<storeVars, gateVars, svcVars>>

RemoveLineStep ==
    /\ \E document \in Docs : RemoveLine(document)
    /\ UNCHANGED <<storeVars, gateVars, svcVars>>

TimerFiresStep ==
    /\ TimerFires
    /\ UNCHANGED <<storeVars, gateVars, svcVars>>

EditResolvesStep ==
    /\ EditResolves
    /\ UNCHANGED <<clock, hist, panelVars, gateVars, svcVars>>

NextMatch == EnterStep \/ TimerFiresStep \/ EditResolvesStep

SpecMatch == InitMatch /\ [][NextMatch]_vars

NextDetect ==
    \/ EnterStep
    \/ TypeStep
    \/ ToggleChatStep
    \/ FocusEditorStep
    \/ RemoveLineStep
    \/ TimerFiresStep
    \/ EditResolvesStep

SpecDetect == InitDetect /\ [][NextDetect]_vars

(***************************************************************************)
(* The specification of the inline queries: the service is constructed     *)
(* under some configuration, '#chat q' is typed and completed in the       *)
(* documents, the triggers run, their chat calls settle with any result,   *)
(* the active editor changes, and meanwhile sessions are created and       *)
(* appended to.                                                            *)
(***************************************************************************)
InlineConfigs ==
    {c \in Configs : /\ c.lib /\ c.apiKey # "blank"
                     /\ c.privateKey = (IF c.useAlith THEN Hex64 ELSE NoKey)}

\* results lazaiService.chat returns
InlineResponses(im) ==
    {Ok("T"), Ok(""), CloudResult(im, "chat", "noKey"), CloudResult(im, "chat", "noChoices")}

InitInline ==
    /\ StoreInit /\ GateInit
    /\ SvcInit /\ config \in InlineConfigs
    /\ DetInit({TRUE}, {"d1"}, FewLines \ {<<>>})

InlineSettlesStep ==
    /\ \E k \in 1..Len(inlineCalls), response \in InlineResponses(impl) :
            InlineSettles(k, response)
    /\ UNCHANGED <<clock, hist, panelVars, gateVars, svcVars>>

NextInline ==
    \/ EnterStep
    \/ FocusEditorStep
    \/ TimerFiresStep
    \/ EditResolvesStep
    \/ InlineSettlesStep
    \/ CreateStep(MaxInlineCreates)
    \/ AppendStep(MaxInlineCreates, MaxAppends, MaxAppends, {Rep("m", 1)})

SpecInline == InitInline /\ [][NextInline]_vars

(***************************************************************************)
(* The specification of the three paths to the backend side by side: the   *)
(* completion provider, the chat panel and the inline queries, each        *)
(* issuing its calls while those of the others are pending.                *)
(***************************************************************************)
\* calls of provideInlineCompletionItems on a line ending in '='
MixInputs ==
    {in \in ProvideInputs : in.enabled /\ ~in.lineThrows /\ in.text = <<"a", "=">>}

ProvideMixStep ==
    /\ \E in \in MixInputs : Provide(in)
    /\ UNCHANGED <<storeVars, svcVars, detVars>>

\* Enter at the end of the line typed in d1
EnterMixStep ==
    /\ detLog.enters < MaxMixEnters
    /\ \E text \in Newlines : DocumentChange("d1", text, <<>>)
    /\ UNCHANGED <<storeVars, gateVars, svcVars>>

InitMix ==
    /\ StoreInit /\ GateInit
    /\ SvcInit /\ config \in {c \in InlineConfigs : ~c.useAlith}
    /\ DetInit({TRUE}, {"d1"}, FewLines \ {<<>>})

NextMix ==
    \/ ProvideMixStep
    \/ SettleStep
    \/ OpenChatPanelStep
    \/ HandleChatMessageStep(MaxSends)
    \/ ChatSettlesStep
    \/ EnterMixStep
    \/ TimerFiresStep
    \/ EditResolvesStep
    \/ InlineSettlesStep

SpecMix == InitMix /\ [][NextMix]_vars

(***************************************************************************)
(* The specification of the suggestions: completion calls are issued and   *)
(* settle with any text of ResponseTexts.                                  *)
(***************************************************************************)
SettleTextStep ==
    /\ \E id \in inflight, text \in ResponseTexts : SettleText(id, text)
    /\ UNCHANGED <<storeVars, svcVars, detVars>>

NextSuggest == ProvideMixStep \/ SettleTextStep \/ GateTickStep

SpecSuggest == Init /\ [][NextSuggest]_vars

(***************************************************************************)
(* Claims about the session store.                                         *)
(***************************************************************************)

\* C1: after any sequence of appends a session holds at most 50 messages, and
\* they are the most recently appended ones in their append order: with
\* total messages appended to it, it holds the appends total-len+1 .. total.
C1_MessagesAreLatestFifty ==
    \A i \in 1..Len(chatSessions) :
        LET s == chatSessions[i]
            len == Len(s.messages)
        IN  /\ len <= MaxSessionMessages
            /\ len = Min(s.total, MaxSessionMessages)
            /\ \A k \in 1..len : s.messages[k].n = s.total - len + k

\* 60 messages were appended to a session, which holds the appends 11..60
C1_Witness ==
    \E i \in 1..Len(chatSessions) :
        /\ chatSessions[i].total = 60
        /\ Len(chatSessions[i].messages) = 50
        /\ chatSessions[i].messages[1].n = 11
        /\ chatSessions[i].messages[50].n = 60

\* C2: the store holds at most 10 sessions, and they are the most recently
\* created ones in creation order, whatever was switched to.
C2_SessionsAreLatestTen ==
    /\ Len(chatSessions) <= MaxSessions
    /\ Len(chatSessions) = Min(hist.created, MaxSessions)
    /\ \A i \in 1..Len(chatSessions) :
        chatSessions[i].seq = hist.created - Len(chatSessions) + i

\* the 11th creation evicted the first session, the one last switched to
C2_Witness ==
    /\ hist.created = 11
    /\ hist.switchedTo = 1
    /\ Len(chatSessions) = 10
    /\ chatSessions[1].seq = 2

(***************************************************************************)
(* Claims about the completion provider.                                   *)
(***************************************************************************)

\* C3: at most one getCompletion call is in flight at any time, and a
\* provideInlineCompletionItems call that finds pendingRequest set returns no
\* suggestion and issues no call, whatever time has elapsed.
C3_SingleFlight ==
    /\ Cardinality(inflight) <= 1
    /\ (lastCall.kind = "provide" /\ lastCall.pending)
            => (~lastCall.issued /\ lastCall.result = "null")

\* a call made while a request was pending, 2000 ms or more after it was
\* issued and with every other gate passing, was rejected
C3_Witness ==
    /\ lastCall.kind = "provide"
    /\ lastCall.pending
    /\ lastCall.elapsed >= minRequestInterval
    /\ lastCall.gates
    /\ ~lastCall.issued
    /\ Cardinality(inflight) = 1

\* C4: issued getCompletion calls are submitted at least 2000 ms apart; a
\* call arriving less than 2000 ms after the last issued one is rejected, and
\* one arriving 2000 ms or more after it is issued when no request is pending
\* and the other gates pass.
C4_MinInterval ==
    /\ \A i \in 1..(Len(issued) - 1) : issued[i + 1] - issued[i] >= minRequestInterval
    /\ (lastCall.kind = "provide" /\ lastCall.elapsed < minRequestInterval)
            => (~lastCall.issued /\ lastCall.result = "null")
    /\ (lastCall.kind = "provide" /\ lastCall.elapsed >= minRequestInterval
            /\ ~lastCall.pending /\ lastCall.gates)
            => lastCall.issued

\* a second call was issued exactly 2000 ms after the first, and a third
\* call, 500 ms after the second, with nothing pending and every other gate
\* passing, was rejected
C4_Witness ==
    /\ Len(issued) = 2
    /\ issued[2] - issued[1] = minRequestInterval
    /\ lastCall.kind = "provide"
    /\ lastCall.elapsed = 500
    /\ lastCall.gates
    /\ ~lastCall.pending
    /\ ~lastCall.issued

(***************************************************************************)
(* Claims about the backend client.                                        *)
(***************************************************************************)
AgentThrew(c) ==
    /\ Len(c.trace) >= 1
    /\ c.trace[1].to = "agent"
    /\ c.trace[1].outcome = "throw"

\* C5: in a chat call whose agent call failed, the cloud backend is called
\* next with the request's messages, and chat() returns the cloud call's
\* outcome.
C5_ChatFallsBackToCloud ==
    (call.kind = "chat" /\ call.pc = "done" /\ AgentThrew(call))
        => /\ Len(call.trace) = 2
           /\ call.trace[2].to = "cloud"
           /\ call.trace[2].payload = call.req
           /\ call.result = CloudResult(impl, "chat", call.trace[2].outcome)

C7_UnavailableAgentGoesToCloud ==
    (call.pc # "idle" /\ ~call.agentAtStart)
        => /\ Len(call.trace) = 1
           /\ call.trace[1].to = "cloud"

\* C8: a call that begins with the prefer-agent flag unset does not call
\* the agent and goes to the cloud backend.
C8_FlagUnsetGoesToCloud ==
    (call.pc # "idle" /\ ~call.useAlithAtStart)
        => /\ Len(call.trace) = 1
           /\ call.trace[1].to = "cloud"

\* C9: a call that begins with the prefer-agent flag set and the agent
\* established calls the agent first, and makes no cloud call when the agent
\* call succeeds.
C9_AgentFirst ==
    (call.pc # "idle" /\ call.useAlithAtStart /\ call.agentAtStart)
        => /\ Len(call.trace) >= 1
           /\ call.trace[1].to = "agent"
           /\ call.trace[1].outcome \in {"ok", "empty"}
                => /\ Len(call.trace) = 1
                   /\ call.pc = "done"
                   /\ call.result.error = NoError

\* the agent was called first, succeeded, and the call ended with its text
C9_Witness ==
    /\ call.pc = "done"
    /\ call.useAlithAtStart
    /\ call.agentAtStart
    /\ config.apiKey = "set"
    /\ Len(call.trace) = 1
    /\ call.trace[1].to = "agent"
    /\ call.trace[1].outcome = "ok"
    /\ call.result = Ok("T")

\* C10: getCompletion and chat always resolve, and a call whose last backend
\* call failed resolves to an error result: error set, text empty.
C10_FailuresBecomeErrorResults ==
    /\ call.pc \in {"idle", "agent", "cloud", "done"}
    /\ (call.pc = "done" /\ Len(call.trace) >= 1
            /\ IsFailure(call.trace[Len(call.trace)].outcome))
        => /\ call.result.error \notin {NoError, ""}
           /\ call.result.text = ""

\* C11: every result getCompletion or chat returns carries exactly one of the
\* two: a non-empty text and no error, or a non-empty error and an empty text.
C11_TextOrError ==
    call.pc = "done"
        => \/ (call.result.text # "" /\ call.result.error = NoError)
           \/ (call.result.text = "" /\ call.result.error \notin {NoError, ""})

\* C12: a run of initializeAlith that comes to validate the private key
\* (agent preferred, key set, library loaded) accepts the key exactly when
\* its trimmed text without an optional 0x prefix is 64 hexadecimal
\* characters, and then hands on the 0x-prefixed form; any other key is
\* rejected with a format error and the agent handle is null afterwards.
C12_KeyValidation ==
    [][(inits' = inits + 1 /\ config.useAlith /\ config.privateKey # <<>> /\ config.lib)
        => LET t == Trim(config.privateKey)
               prefixed == Len(t) >= 2 /\ SubSeq(t, 1, 2) = <<"0", "x">>
               body == IF prefixed THEN SubSeq(t, 3, Len(t)) ELSE t
               valid == Len(body) = 64 /\ \A i \in 1..Len(body) : body[i] \in HexDigits
               rejected == \E i \in 1..Len(notices') : notices'[i] \in {FormatErrorA, FormatErrorB}
           IN  IF valid
               THEN ~rejected /\ envKey' = <<"0", "x">> \o body
               ELSE rejected /\ alithAgent' = FALSE]_vars

\* C13: isConfigured() returns true exactly when some backend has usable
\* credentials: a non-empty cloud API key, or the agent preferred with an
\* agent key of exactly 64 hexadecimal characters; so with a malformed agent
\* key it returns true if and only if the cloud key is configured.
C13_ConfiguredIffUsable ==
    configured # <<>>
        => LET cloud == config.apiKey # "none"
               agent == config.useAlith /\ KeyFormatOk(StripKey(config.privateKey))
           IN  /\ configured[1] = (cloud \/ agent)
               /\ ~KeyFormatOk(StripKey(config.privateKey)) => (configured[1] = cloud)

(***************************************************************************)
(* Claims about the chat detector.                                         *)
(***************************************************************************)

\* C14: Enter on a line, with the flag on and the document the active
\* editor's, schedules a trigger exactly when the trimmed line is an optional
\* '//' or '#', optional white space, 'chat' in any letter case, at least one
\* white space character and a non-empty remainder; the trigger's question
\* is that remainder trimmed.  '// chat how do I sort an array' asks
\* 'how do I sort an array', and 'chatbot is cool' schedules nothing.
C14_TriggerOnChatLine ==
    (detLog.kind = "change" /\ detLog.gates /\ detLog.text \in Newlines)
        => LET t == Trim(detLog.lineText)
               \* the ways to read t as marker, i spaces, chat, j spaces, rest
               Readings ==
                   {r \in [m : {<<>>, <<"/", "/">>, <<"#">>}, i : 0..Len(t), j : 1..Len(t)] :
                        /\ Len(r.m) + r.i + 4 + r.j < Len(t)
                        /\ SubSeq(t, 1, Len(r.m)) = r.m
                        /\ \A k \in (Len(r.m) + 1)..(Len(r.m) + r.i) : t[k] \in {" ", "\t"}
                        /\ \E w \in {"c", "C"} \X {"h", "H"} \X {"a", "A"} \X {"t", "T"} :
                            SubSeq(t, Len(r.m) + r.i + 1, Len(r.m) + r.i + 4) = w
                        /\ \A k \in (Len(r.m) + r.i + 5)..(Len(r.m) + r.i + 4 + r.j) :
                            t[k] \in {" ", "\t"}}
               Rest(r) == SubSeq(t, Len(r.m) + r.i + 4 + r.j + 1, Len(t))
           IN  /\ Readings = {} => detLog.scheduled = <<>>
               /\ Readings # {}
                    => /\ Len(detLog.scheduled) = 1
                       /\ \A r \in Readings : detLog.scheduled[1].question = Trim(Rest(r))
               /\ detLog.lineText = ChatbotLine => detLog.scheduled = <<>>
               /\ detLog.lineText = SortLine
                    => /\ Len(detLog.scheduled) = 1
                       /\ detLog.scheduled[1].question = SubSeq(SortLine, 9, Len(SortLine))

\* Enter on '// chat how do I sort an array' scheduled a trigger asking
\* 'how do I sort an array'
C14_Witness ==
    /\ detLog.kind = "change"
    /\ detLog.gates
    /\ detLog.lineText = SortLine
    /\ Len(timers) = 1
    /\ timers[1].question = SubSeq(SortLine, 9, Len(SortLine))
    /\ timers[1].originalLineText = SortLine

\* C15: Enter on the block-comment line '/* chat q */', with the flag on and
\* the document the active editor's, schedules a trigger, like the '//' and
\* '#' styles do.
C15_BlockCommentTriggers ==
    (detLog.kind = "change" /\ detLog.gates /\ detLog.text \in Newlines
        /\ detLog.lineText = BlockLine)
        => detLog.scheduled # <<>>

\* C16: a document change that arrives while the chat flag is off, or for a
\* document that is not the active editor's, schedules no trigger, deletes
\* nothing and does not invoke the orchestrator.
C16_InertWhenGated ==
    (detLog.kind = "change" /\ (~detLog.gates))
        => /\ detLog.scheduled = <<>>
           /\ detLog.deleted = 0
           /\ detLog.invoked = 0

\* Enter completed '#chat q' in a document that is not the active editor's,
\* with the flag on, and nothing was scheduled
C16_Witness ==
    /\ detLog.kind = "change"
    /\ detLog.text \in Newlines
    /\ detLog.lineText = <<"#", "c", "h", "a", "t", " ", "q">>
    /\ chatEnabled
    /\ activeEditor # detLog.document
    /\ ~detLog.gates
    /\ timers = <<>>
    /\ edits = <<>>
    /\ queries = <<>>

(***************************************************************************)
(* Further claims about the session store.                                 *)
(***************************************************************************)

\* C18: a session created from a first message is named with the message
\* when it has at most 30 characters, and with its first 30 characters and
\* then '...' when it is longer; a session created without a first message
\* is named 'Chat ' and n+1 in decimal, n being the number of sessions held
\* when it was created.  (The newest session is the last one of the store.)
C18_SessionNames ==
    hist.created > 0
        => LET name == chatSessions[Len(chatSessions)].name
               first == hist.first
           IN  /\ (first # <<>> /\ Len(first) <= 30) => name = first
               /\ (first # <<>> /\ Len(first) > 30)
                    => /\ Len(name) = 33
                       /\ SubSeq(name, 1, 30) = SubSeq(first, 1, 30)
                       /\ SubSeq(name, 31, 33) = <<".", ".", ".">>
               /\ first = <<>>
                    => \/ (hist.held < 9 /\ name = <<"C", "h", "a", "t", " ", DigitChar(hist.held + 1)>>)
                       \/ (hist.held = 9 /\ name = <<"C", "h", "a", "t", " ", "1", "0">>)
                       \/ (hist.held = 10 /\ name = <<"C", "h", "a", "t", " ", "1", "1">>)

\* the first session was created by the append of a user message of 31
\* characters and is named with 30 of them and '...'; the second, created
\* without a message while one session was held, is named 'Chat 2'
C18_Witness ==
    /\ Len(chatSessions) = 2
    /\ chatSessions[1].name = Rep("m", 30) \o <<".", ".", ".">>
    /\ chatSessions[1].messages = <<[role |-> "user", n |-> 1]>>
    /\ chatSessions[2].name = <<"C", "h", "a", "t", " ", "2">>
    /\ hist.held = 1

\* C17: the request a panel message sends to the backend is the system
\* prompt, then the at most 5 messages of the session that immediately
\* precede the user message just appended, in their order, then that user
\* message, which occurs once, as the last entry.
C17_RequestWindow ==
    (panelLog.op = "send" /\ panelLog.request # <<>>)
        => LET i == FindSession(chatSessions, currentSessionId)
               msgs == chatSessions[i].messages
               new == msgs[Len(msgs)]
               k == Min(5, Len(msgs) - 1)
               req == panelLog.request
           IN  /\ i # 0
               /\ new.role = "user"
               /\ Len(req) = k + 2
               /\ req[1].role = "system"
               /\ \A j \in 1..k : req[1 + j] = msgs[Len(msgs) - 1 - k + j]
               /\ req[Len(req)] = new
               /\ \A j \in 1..(Len(req) - 1) : req[j] # new

\* a panel message arrived in a session of 10 messages: the request is the
\* system prompt, the messages 6 .. 10 and the new message, the 11th
C17_Witness ==
    /\ panelLog.op = "send"
    /\ Len(panelLog.request) = 7
    /\ Len(chatSessions) = 1
    /\ Len(chatSessions[1].messages) = 11
    /\ panelLog.request[2] = chatSessions[1].messages[6]
    /\ panelLog.request[2].n = 6
    /\ panelLog.request[7] = [role |-> "user", n |-> 11]

\* C19: either no session was ever created and there is no current session,
\* or the current session id is the id of exactly one session held.
C19_CurrentIsOneHeldSession ==
    \/ (hist.created = 0 /\ currentSessionId = NullId)
    \/ Cardinality({i \in 1..Len(chatSessions) : chatSessions[i].id = currentSessionId}) = 1

\* C20: switchToSession with an id no held session has changes nothing: the
\* current session id, the sessions with their messages, and the display are
\* as before; with the id of a held session the current session id becomes
\* that id and no session's messages change.
C20_SwitchFrame ==
    panelLog.op = "switch"
        => IF panelLog.known
           THEN panelLog.became /\ panelLog.kept
           ELSE panelLog.same

\* with the panel open and showing a conversation, a switch to an id that no
\* session has left everything as it was
C20_Witness ==
    /\ panelLog.op = "switch"
    /\ ~panelLog.known
    /\ panelLog.same
    /\ panel
    /\ Len(display) >= 2
    /\ Len(chatSessions) = 2
    /\ currentSessionId = chatSessions[1].id

\* C24: the 'Reinitialize Alith Connection' command re-runs the agent's
\* establishment on the service instance the chat provider and the detector
\* use: after it that instance's handle and the messages shown are those of
\* a run of initializeAlith on that instance with the settings as they are.
C24_CommandReinitializes ==
    [][(notices' # notices /\ notices' # <<>> /\ notices'[1] = Reinitializing)
        => \E net \in {"ok", "fail"} :
              LET r == initializeAlith(impl, config, alithAgent, envKey, net)
              IN  /\ alithAgent' = r.alithAgent
                  /\ notices' = <<Reinitializing, Reinitialized>> \o r.notices]_vars

\* C25: a call that takes the cloud path with no API key configured sends
\* no request (it is never left waiting for fetch) and ends with the error
\* "API key not configured".
C25_NoKeyShortCircuits ==
    (call.trace # <<>> /\ call.trace[Len(call.trace)].outcome = "noKey")
        => /\ call.pc = "done"
           /\ call.result.text = ""
           /\ call.result.error = "API key not configured"

(***************************************************************************)
(* Claims about the panel's messages and the inline queries.               *)
(***************************************************************************)

\* C21: a panel message that finds the backend unconfigured appends the user
\* message and then the one fixed instructional assistant message to the
\* current session, sends no request, and leaves no backend chat call
\* pending for it.
C21_UnconfiguredReply ==
    (panelLog.op = "send" /\ ~panelLog.usable)
        => LET i == FindSession(chatSessions, currentSessionId)
               s == chatSessions[i]
               k == Len(s.messages)
           IN  /\ i # 0
               /\ panelLog.request = <<>>
               /\ panelLog.added =
                    <<[session |-> s.seq, role |-> "user", n |-> s.total - 1,
                       text |-> UserText],
                      [session |-> s.seq, role |-> "assistant", n |-> s.total,
                       text |-> ApiKeyMissing]>>
               /\ k >= 2
               /\ s.messages[k - 1] = [role |-> "user", n |-> s.total - 1]
               /\ s.messages[k] = [role |-> "assistant", n |-> s.total]
               /\ \A p \in 1..Len(pendingChats) :
                    ~(pendingChats[p].session = s.seq /\ pendingChats[p].n = s.total - 1)

\* with two sessions held, a message sent while the backend was unconfigured
\* left the current session with the user message and the instruction
C21_Witness ==
    /\ panelLog.op = "send"
    /\ ~panelLog.usable
    /\ Len(chatSessions) = 2
    /\ currentSessionId = chatSessions[2].id
    /\ chatSessions[1].id # chatSessions[2].id
    /\ chatSessions[2].messages = <<[role |-> "user", n |-> 1],
                                    [role |-> "assistant", n |-> 2]>>
    /\ panelLog.added[2].text = ApiKeyMissing
    /\ pendingChats = <<>>

\* C22: a step of an inline query, handleInlineChatQuery up to its return or
\* the rest of it once the chat call has settled with a text or an error,
\* leaves the sessions, their messages and the current session id as they
\* were.
C22_InlineLeavesStore ==
    [][(queries' # queries \/ inlineCalls' # inlineCalls)
            => (chatSessions' = chatSessions /\ currentSessionId' = currentSessionId)]_vars

\* an inline query ended with an error while the store held a session with a
\* message
C22_Witness ==
    /\ detLog.kind = "settle"
    /\ detLog.outcome = "error"
    /\ Len(chatSessions) = 1
    /\ chatSessions[1].messages = <<[role |-> "user", n |-> 1]>>
    /\ currentSessionId = chatSessions[1].id

\* the insertions made for the query at place q of queries
InsertsFor(q) == {j \in 1..Len(inserts) : inserts[j].query = q}

\* an inline query found the backend unconfigured or ended in a backend error
InlineFailed == detLog.outcome \in {"unconfigured", "error"}

\* C23: an inline query that finds the backend unconfigured or ends in a
\* backend error shows the error, and no edit of the document was made for
\* it: no insertion, and no deletion by the trigger that started it.
C23_ErrorLeavesDocument ==
    InlineFailed
        => /\ detLog.surfaced # <<>>
           /\ errorsShown # <<>> /\ errorsShown[Len(errorsShown)] = detLog.surfaced
           /\ InsertsFor(detLog.query) = {}
           /\ detLog.query > Len(edits)

\* C26: when the backend call of a panel message settles, exactly one
\* assistant turn (the response text or the formatted error) is appended to
\* a session and no exception leaves handleChatMessage, the panel having
\* been closed in the meantime or not.
C26_SettleAppendsOneTurn ==
    panelLog.op = "settle"
        => /\ ~panelLog.escaped
           /\ Len(panelLog.added) = 1
           /\ panelLog.added[1].role = "assistant"
           /\ panelLog.added[1].text \in {ResponseText, ErrorMsg}

\* C27: the assistant turn of a panel message goes to the session that
\* received the user message, whatever createNewChat, switchToSession and
\* other panel messages did while the backend call was pending.
C27_ReplyJoinsItsQuestion ==
    (panelLog.op = "settle" /\ panelLog.added # <<>>)
        => panelLog.added[1].session = panelLog.origin

\* the total of the session with creation ordinal seq, 0 when the store does
\* not hold it
TotalOf(sessions, seq) ==
    IF HeldAt(sessions, seq) # 0 THEN sessions[HeldAt(sessions, seq)].total ELSE 0

\* C28: every append goes to the session the current id resolves to at the
\* moment of the append: a session whose messages grow in a step is held by
\* the store and is its current session after the step, each message the
\* step reports went to that session, and as many messages were stored as
\* were reported; so no message goes to a session the store has evicted.
C28_AppendsResolveCurrent ==
    [][/\ \A i \in 1..Len(chatSessions') :
            chatSessions'[i].total > TotalOf(chatSessions, chatSessions'[i].seq)
                => chatSessions'[i].id = currentSessionId'
       /\ panelLog' # panelLog
            => \A j \in 1..Len(panelLog'.added) :
                  LET e == panelLog'.added[j]
                      i == HeldAt(chatSessions', e.session)
                  IN  /\ i # 0
                      /\ chatSessions'[i].id = currentSessionId'
                      /\ chatSessions'[i].total
                            >= TotalOf(chatSessions, e.session) + Len(panelLog'.added)]_vars

\* a call settled after its session had been evicted, and its reply went
\* to a session the store holds
C28_Witness ==
    /\ panelLog.op = "settle"
    /\ panelLog.added # <<>>
    /\ HeldAt(chatSessions, panelLog.origin) = 0
    /\ HeldAt(chatSessions, panelLog.added[1].session) # 0
    /\ Len(chatSessions) = MaxSessions

(***************************************************************************)
(* Claims about the completion provider's time stamp.                      *)
(***************************************************************************)

\* C29: a call of provideInlineCompletionItems that issues the backend call
\* sets lastRequestTime to the time it read at the rate-limit gate, and the
\* settling of a backend call leaves lastRequestTime as it is, however long
\* the call took; so lastRequestTime is always the time the last call was
\* issued.
C29_StampedAtSubmission ==
    [][/\ Len(issued') = Len(issued) + 1
            => /\ lastRequestTime' = gnow
               /\ issued'[Len(issued')] = gnow
               /\ lastCall'.elapsed = gnow - lastRequestTime
       /\ inflight' \subseteq inflight /\ inflight' # inflight
            => lastRequestTime' = lastRequestTime
       /\ issued' # <<>> => lastRequestTime' = issued'[Len(issued')]]_vars

\* a call settled more than 2000 ms after it was issued, and the time stamp
\* is still the time of its submission
C29_Witness ==
    /\ lastCall.kind = "settle"
    /\ lastCall.elapsed > minRequestInterval
    /\ issued # <<>>
    /\ lastRequestTime = issued[Len(issued)]
    /\ gnow - lastRequestTime > minRequestInterval

\* C30: a call of provideInlineCompletionItems that a gate rejects (the
\* feature disabled, the backend unconfigured, cancellation requested, the
\* rate limit, a pending request, the text before the cursor empty after
\* trimming, shorter than 2 characters or matching no trigger) issues no
\* backend call and leaves lastRequestTime and pendingRequest as they were.
C30_RejectionLeavesGate ==
    [][(/\ lastCall'.kind = "provide"
        /\ lastCall' # lastCall
        /\ \/ ~lastCall'.gates
           \/ lastCall'.pending
           \/ lastCall'.elapsed < minRequestInterval)
        => /\ ~lastCall'.issued
           /\ issued' = issued
           /\ inflight' = inflight
           /\ lastRequestTime' = lastRequestTime
           /\ pendingRequest' = pendingRequest]_vars

\* a call was rejected by the text gates alone, more than 2000 ms after the
\* last issued call and with none pending
C30_Witness ==
    /\ lastCall.kind = "provide"
    /\ ~lastCall.gates
    /\ ~lastCall.pending
    /\ lastCall.elapsed >= minRequestInterval
    /\ ~lastCall.issued
    /\ issued # <<>>
    /\ lastRequestTime = issued[Len(issued)]
    /\ pendingRequest = 0

\* C31: pendingRequest is set exactly while a getCompletion call is in
\* flight, and then names that call; it is cleared when the call settles,
\* with a result, an error result or a thrown exception.  A later call of
\* provideInlineCompletionItems that finds it set issues nothing, and one
\* that finds it clear is issued when the rate limit and the other gates
\* pass.
C31_PendingWhileInFlight ==
    /\ (pendingRequest # 0) = (inflight # {})
    /\ pendingRequest # 0 => inflight = {pendingRequest}
    /\ lastCall.kind = "settle" => pendingRequest = 0
    /\ lastCall.kind = "provide"
            => lastCall.issued = (/\ ~lastCall.pending
                                  /\ lastCall.elapsed >= minRequestInterval
                                  /\ lastCall.gates)

\* a second call was issued after the first had settled
C31_Witness ==
    /\ lastCall.kind = "provide"
    /\ lastCall.issued
    /\ ~lastCall.pending
    /\ Len(issued) = 2
    /\ inflight = {2}
    /\ pendingRequest = 2

(***************************************************************************)
(* Claims about chat calls beside the completion provider's gate.          *)
(***************************************************************************)

\* C32: chat calls pass neither the single-flight flag nor the minimum
\* interval: a step that issues a panel or an inline chat call leaves
\* lastRequestTime and pendingRequest (and the completion calls in flight)
\* as they are, and a panel message or an inline query that finds the
\* backend configured issues its call whatever calls are pending and
\* whatever time has passed since the last completion call.
C32_ChatIsUngated ==
    [][/\ (Len(pendingChats') > Len(pendingChats) \/ Len(inlineCalls') > Len(inlineCalls))
            => /\ lastRequestTime' = lastRequestTime
               /\ pendingRequest' = pendingRequest
               /\ inflight' = inflight
               /\ issued' = issued
       /\ (panelLog'.sends = panelLog.sends + 1 /\ panelLog'.usable)
            => Len(pendingChats') = Len(pendingChats) + 1
       /\ (Len(queries') = Len(queries) + 1 /\ isConfigured(impl, config))
            => Len(inlineCalls') = Len(inlineCalls) + 1]_vars

\* a panel message issued its chat call while a completion call and an
\* inline chat call were pending, within the minimum interval of the
\* completion call
C32_Witness ==
    /\ panelLog.op = "send"
    /\ panelLog.request # <<>>
    /\ pendingChats # <<>>
    /\ inlineCalls # <<>>
    /\ pendingRequest # 0
    /\ gnow - lastRequestTime < minRequestInterval

(***************************************************************************)
(* Claims about the triggers and the edits they make.                      *)
(***************************************************************************)

\* C33: a trigger that fires and deletes, deletes in the document where it
\* was detected, at its line, the range of the trigger line's text, whatever
\* happened to the documents and the active editor during the delay.
C33_DeletesInItsDocument ==
    (detLog.kind = "trigger" /\ detLog.deleted = 1)
        => /\ edits # <<>>
           /\ edits[Len(edits)].document = detLog.document
           /\ edits[Len(edits)].from = 0

\* C34: an inline query whose chat call succeeds inserts its comment block,
\* one edit, at the trigger position of the document where the trigger was
\* typed, whatever the active editor is when the call settles.
C34_InsertsInItsDocument ==
    (detLog.kind = "settle" /\ detLog.outcome # "error")
        => /\ Cardinality(InsertsFor(detLog.query)) = 1
           /\ inserts # <<>>
           /\ inserts[Len(inserts)].query = detLog.query
           /\ inserts[Len(inserts)].document = queries[detLog.query].document
           /\ inserts[Len(inserts)].line = queries[detLog.query].line

\* C35: a trigger whose line index is negative or not less than the line
\* count of its document when its timer fires is dropped: the step deletes
\* nothing, leaves no edit awaited (so the orchestrator is never invoked for
\* it) and shows no error.
C35_OutOfRangeAborts ==
    [][(/\ timers # <<>>
        /\ timers' = Tail(timers)
        /\ \/ Head(timers).line < 0
           \/ Head(timers).line >= docs[Head(timers).document].lineCount)
        => /\ edits' = edits
           /\ editing' = editing
           /\ queries' = queries
           /\ inlineCalls' = inlineCalls
           /\ errorsShown' = errorsShown]_vars

\* a timer fired with an editor active and its trigger was dropped, its
\* document having fewer lines than when Enter was pressed
C35_Witness ==
    /\ detLog.kind = "trigger"
    /\ detLog.deleted = 0
    /\ activeEditor # NoDoc
    /\ timers = <<>>
    /\ editing = <<>>
    /\ edits = <<>>
    /\ queries = <<>>
    /\ errorsShown = <<>>

(***************************************************************************)
(* Claims about the suggestions.                                           *)
(***************************************************************************)

\* C36: a suggestion the completion provider returns is not empty, neither
\* begins nor ends with white space, and does not contain the sentinel
\* <CURSOR>, whatever text the backend returned.
C36_SuggestionIsClean ==
    (lastCall.kind = "settle" /\ lastCall.result = "item")
        => /\ lastCall.suggestion # <<>>
           /\ ~IsSpace(lastCall.suggestion[1])
           /\ ~IsSpace(lastCall.suggestion[Len(lastCall.suggestion)])
           /\ ~Includes(lastCall.suggestion, Sentinel)

(***************************************************************************)
(* Claims about what leaves the store.                                     *)
(***************************************************************************)
SeqsOf(sessions) == {sessions[i].seq : i \in 1..Len(sessions)}

\* C37: a session leaves the store only in a step that creates a session
\* while 10 are held, and then one session leaves; a message leaves a
\* session only in a step that appends to that session while it holds 50
\* messages, and then its oldest message leaves.  No other step, the 'clear
\* history' command included, removes a session or a message.
C37_OnlyCapacityRemoves ==
    [][/\ SeqsOf(chatSessions) \ SeqsOf(chatSessions') # {}
            => /\ hist'.created = hist.created + 1
               /\ Len(chatSessions) = MaxSessions
               /\ Cardinality(SeqsOf(chatSessions) \ SeqsOf(chatSessions')) = 1
       /\ \A i \in 1..Len(chatSessions), j \in 1..Len(chatSessions') :
            chatSessions[i].seq = chatSessions'[j].seq
                => LET old == chatSessions[i].messages
                       new == chatSessions'[j].messages
                   IN  \/ /\ Len(new) >= Len(old)
                          /\ SubSeq(new, 1, Len(old)) = old
                       \/ /\ chatSessions'[j].total = chatSessions[i].total + 1
                          /\ Len(old) = MaxSessionMessages
                          /\ Len(new) = MaxSessionMessages
                          /\ SubSeq(new, 1, Len(new) - 1) = Tail(old)]_vars

\* 51 messages or more were appended to the first session, eleven sessions
\* were created, of which ten are held, and the 'clear history' command ran
C37_Witness ==
    /\ hist.appends > MaxSessionMessages
    /\ hist.created = MaxSessions + 1
    /\ Len(chatSessions) = MaxSessions
    /\ hist.picks = 1

\* C38: the sessions held have pairwise distinct ids, whatever creations were
\* made, two in the same millisecond included.
C38_IdsAreDistinct ==
    \A i, j \in 1..Len(chatSessions) :
        i # j => chatSessions[i].id # chatSessions[j].id

\* C39: while the chat panel is open the current session id names a session
\* held by the store, so a step of the panel path that appends messages
\* creates no session (and names none from a message).
C39_OpenPanelHasSession ==
    [][/\ panel' => FindSession(chatSessions', currentSessionId') # 0
       /\ (panelLog' # panelLog /\ panelLog'.added # <<>>)
            => /\ hist'.created = hist.created
               /\ SeqsOf(chatSessions') = SeqsOf(chatSessions)
               /\ \A i \in 1..Len(chatSessions) :
                    chatSessions'[i].name = chatSessions[i].name]_vars

\* the first message of the panel went to the session openChatPanel had
\* created, which keeps its default name
C39_Witness ==
    /\ panel
    /\ panelLog.op = "send"
    /\ panelLog.added # <<>>
    /\ hist.created = 1
    /\ Len(chatSessions) = 1
    /\ chatSessions[1].total >= 1
    /\ chatSessions[1].name = <<"C", "h", "a", "t", " ", "1">>

\* C40: after every run of initializeAlith, from the constructor or from
\* reinitialize(), the agent handle is set only if that run read the
\* prefer-agent flag set, a private key of the valid format and the library
\* present; a run under a configuration without the flag or without a key
\* leaves no handle of an earlier run.
C40_HandleIsOfThisRun ==
    [][inits' = inits + 1
        => (alithAgent' => /\ config.useAlith
                           /\ config.privateKey # NoKey
                           /\ KeyFormatOk(StripKey(config.privateKey))
                           /\ config.lib)]_vars

====
